---- MODULE Spec2Model ----
(***************************************************************************)
(* Cookify chatbot backend: the FAISS-backed VectorDBManager               *)
(* (vector_db_manager.py), the start-up path of EnhancedCookingChatbot     *)
(* (enhanced_main.py) and RecipeSearchOptimizer (mongodb_sync.py).         *)
(*                                                                         *)
(* Numbers.  Embeddings are float32 vectors in the code.  Here a vector is *)
(* a tuple of integers; a normalized vector has length UnitLen, so an      *)
(* inner product or a squared L2 distance of two normalized vectors is an  *)
(* integer in units of 1/(UnitLen*UnitLen): 100 stands for 1.0, 50 for the *)
(* default threshold 0.5.  The raw vectors are chosen with integer norms,  *)
(* so normalization is exact; float rounding is not modelled.              *)
(***************************************************************************)
EXTENDS Integers, Sequences, FiniteSets, TLC

VARIABLES
    vector_db,      \* the VectorDBManager object: dimension, index_type, index, metadata, is_trained
    index_files,    \* the file system: index_path -> what faiss.write_index stored there
    metadata_files, \* the file system: metadata_path -> the dict pickled there
    ret,            \* the last call: its name, its arguments, what it returned or raised
    next_doc,       \* documents handed to add_documents so far (names the next metadata element)
    n_adds,         \* add_documents calls that went through so far
    n_saves,        \* save calls so far
    mongo_sync,     \* EnhancedCookingChatbot.mongo_sync: None, or whether connect() succeeded
    last_sync_time, \* EnhancedCookingChatbot.last_sync_time: Nothing or Some(clock value)
    all_documents_cache, \* EnhancedCookingChatbot.all_documents_cache (each document by its source_type)
    recipes_cache,  \* EnhancedCookingChatbot.recipes_cache
    clock,          \* datetime.now()
    recipes,        \* the recipes list handed to RecipeSearchOptimizer.multi_strategy_search
    retrieved_docs  \* the retrieved_docs handed to AdvancedConfidenceScorer.calculate_confidence

manager_vars == <<vector_db, index_files, metadata_files, next_doc, n_adds, n_saves>>
chatbot_vars == <<mongo_sync, last_sync_time, all_documents_cache, recipes_cache, clock>>
input_vars == <<recipes, retrieved_docs>>
vars == <<manager_vars, ret, chatbot_vars, input_vars>>

----------------------------------------------------------------------------
(* Bounds of the model *)

\* components of an embedding of the modelled managers (384 in the deployment)
Dim == 2
\* add_documents calls that store something, over a run
MaxAdds == 2
\* save calls over a run
MaxSaves == 1
\* largest k passed to search
MaxK == 3
\* documents in a recipes list
MaxRecipes == 2
\* documents in a retrieved_docs list
MaxDocs == 2
MaxClock == 3

(* Program constants *)

\* vector_db_manager.py:70  "if len(embeddings) >= 100"
TrainThreshold == 100
\* vector_db_manager.py:41  "nlist = 100"
nlist == 100
\* the length of a vector after faiss.normalize_L2, 1.0, in the model's fixed-point unit
UnitLen == 10

\* a path holds <<>> when no file is there, else <<the contents>>
NoFile == <<>>
File(contents) == <<contents>>
\* Path(p).exists()
Exists(file) == file # NoFile
Contents(file) == file[1]

None == "None"
\* an optional value that is not a string: <<>> for None, else <<the value>>
Nothing == <<>>
Some(v) == <<v>>

----------------------------------------------------------------------------
(* Vectors *)

RECURSIVE DotFrom(_, _, _)
DotFrom(a, b, i) == IF i > Len(a) THEN 0 ELSE a[i] * b[i] + DotFrom(a, b, i + 1)

\* inner product, the metric of faiss.IndexFlatIP
Dot(a, b) == DotFrom(a, b, 1)

RECURSIVE L2SqrFrom(_, _, _)
L2SqrFrom(a, b, i) ==
    IF i > Len(a) THEN 0 ELSE (a[i] - b[i]) * (a[i] - b[i]) + L2SqrFrom(a, b, i + 1)

\* squared Euclidean distance, the metric of faiss METRIC_L2
L2Sqr(a, b) == L2SqrFrom(a, b, 1)

\* floor of the square root
ISqrt(n) == CHOOSE r \in 0..n : r * r <= n /\ (r + 1) * (r + 1) > n

\* faiss.normalize_L2 on one row: a row of norm 0 is left as it is
normalize_L2(v) ==
    LET nr == Dot(v, v)
    IN  IF nr = 0 THEN v
        ELSE [i \in 1..Len(v) |-> (v[i] * UnitLen) \div ISqrt(nr)]

\* a vector of d components: (a, b, 0, ..., 0)
Vec(a, b, d) == [i \in 1..d |-> IF i = 1 THEN a ELSE IF i = 2 THEN b ELSE 0]

\* the raw (not normalized) rows that batches are made of
RawVecs == <<Vec(3, 4, Dim), Vec(-3, -4, Dim), Vec(6, 8, Dim), Vec(4, 3, Dim)>>

\* a batch of n rows of Dim components, starting at row s of RawVecs
Batch(n, s) == [i \in 1..n |-> RawVecs[((s + i - 1) % Len(RawVecs)) + 1]]

\* the embeddings arrays handed to add_documents: small batches, one batch large
\* enough to train on, and a batch whose rows have one component too many
SmallBatches == {Batch(1, 0), Batch(2, 0)}
BigBatch == Batch(TrainThreshold, 0)
BadBatch == <<Vec(3, 4, Dim + 1)>>
EmbeddingBatches == SmallBatches \cup {BigBatch, BadBatch}

\* embeddings.shape[1]
Shape1(embeddings) == Len(embeddings[1])

\* query embeddings: two of the right dimension, one with a component too many
Queries == {Vec(3, 4, Dim), Vec(8, 6, Dim), Vec(3, 4, Dim + 1)}
\* thresholds: 0.0 and the default 0.5
Thresholds == {0, 50}

----------------------------------------------------------------------------
(* The FAISS index objects the manager creates.  xb is the stored rows in   *)
(* insertion order; the ordinal of xb[i] is i - 1.  Each row carries, as a  *)
(* ghost field, the metadata element add_documents was given with it.       *)

IndexFlatIP(d) ==
    [kind |-> "Flat", metric |-> "IP", d |-> d, is_trained |-> TRUE, xb |-> <<>>]

\* faiss.IndexIVFFlat(quantizer, d, nlist): the metric argument is left to its default, METRIC_L2
IndexIVFFlat(d) ==
    [kind |-> "IVF", metric |-> "L2", d |-> d, is_trained |-> FALSE, xb |-> <<>>]

\* faiss.IndexHNSWFlat(d, M): the metric argument is left to its default, METRIC_L2
IndexHNSWFlat(d) ==
    [kind |-> "HNSW", metric |-> "L2", d |-> d, is_trained |-> TRUE, xb |-> <<>>]

IndexTypes == {"Flat", "IVF", "HNSW"}

_create_index(dimension, index_type) ==
    IF index_type = "Flat" THEN IndexFlatIP(dimension)
    ELSE IF index_type = "IVF" THEN IndexIVFFlat(dimension)
    ELSE IndexHNSWFlat(dimension)

\* VectorDBManager.__init__
NewVectorDB(dimension, index_type) ==
    [dimension  |-> dimension,
     index_type |-> index_type,
     index      |-> _create_index(dimension, index_type),
     metadata   |-> <<>>,
     is_trained |-> FALSE]

ntotal(index) == Len(index.xb)

\* index.train(x) raises when the rows have another width, and k-means of an
\* IVF index when there are fewer rows than clusters
IndexTrainRaises(index, x) ==
    Shape1(x) # index.d \/ (index.kind = "IVF" /\ Len(x) < nlist)

\* index.train(x): k-means for an IVF index, nothing for the other kinds
IndexTrain(index, x) ==
    IF index.kind = "IVF" THEN [index EXCEPT !.is_trained = TRUE] ELSE index

\* index.add(x) raises when the index is not trained or the rows have another width
IndexAddRaises(index, x) == ~index.is_trained \/ Shape1(x) # index.d

\* index.add(x): the rows are appended, ordinals ntotal, ntotal+1, ...
IndexAdd(index, x, docs) ==
    [index EXCEPT !.xb = @ \o [i \in 1..Len(x) |-> [vec |-> x[i], doc |-> docs[i]]]]

----------------------------------------------------------------------------
(* VectorDBManager.add_documents *)

\* add_documents without "if embeddings.shape[1] != self.dimension"
DimensionMismatch_unchecked(db, embeddings) == FALSE
\* "if embeddings.shape[1] != self.dimension"
DimensionMismatch(db, embeddings) == Shape1(embeddings) # db.dimension

\* the result of a call: the manager afterwards and the exception raised, if any
add_documents(db, embeddings, metadata) ==
    IF DimensionMismatch(db, embeddings)
    THEN [db |-> db, raised |-> "ValueError"]
    ELSE
        LET x == [i \in 1..Len(embeddings) |-> normalize_L2(embeddings[i])]
            untrained == db.index_type = "IVF" /\ ~db.is_trained
            big == Len(embeddings) >= TrainThreshold
        IN  IF untrained /\ big /\ IndexTrainRaises(db.index, x)
            THEN [db |-> db, raised |-> "RuntimeError"]
            ELSE
                LET db1 == IF untrained /\ big
                           THEN [db EXCEPT !.index = IndexTrain(@, x), !.is_trained = TRUE]
                           ELSE IF untrained
                           THEN [db EXCEPT !.index = IndexFlatIP(db.dimension)]
                           ELSE db
                IN  IF IndexAddRaises(db1.index, x)
                    THEN [db |-> db1, raised |-> "RuntimeError"]
                    ELSE [db |-> [db1 EXCEPT !.index = IndexAdd(@, x, metadata),
                                             !.metadata = @ \o metadata],
                          raised |-> None]

----------------------------------------------------------------------------
(* VectorDBManager.search *)

\* what index.search writes into a slot it cannot fill: label -1 and the
\* worst value of the metric, -FLT_MAX for inner product, +FLT_MAX for L2
FLT_MAX == 1000000

Pad(index) ==
    [score |-> IF index.metric = "IP" THEN -FLT_MAX ELSE FLT_MAX, idx |-> -1]

\* the value index.search reports for stored row i (1-based) and query q
Score(index, q, i) ==
    IF index.metric = "IP" THEN Dot(q, index.xb[i].vec) ELSE L2Sqr(q, index.xb[i].vec)

\* how the rows of equal value are ordered among themselves is left to FAISS
TieOrders == {"first", "last"}

\* rows are ranked by Key, smallest first: best value first (largest inner
\* product, smallest distance), rows of equal value in the tie order
Key(index, q, tie, i) ==
    LET n == ntotal(index)
        primary == IF index.metric = "IP" THEN -Score(index, q, i) ELSE Score(index, q, i)
    IN  primary * (n + 1) + (IF tie = "first" THEN i ELSE n - i)

\* the row a Key belongs to
RowOfKey(index, tie, key) ==
    LET n == ntotal(index)
        r == key % (n + 1)
    IN  IF tie = "first" THEN r ELSE n - r

Least(S) == CHOOSE x \in S : \A y \in S : x <= y

RECURSIVE TopK(_, _, _, _, _)
\* k slots: the rows whose keys are the smallest of keys, in rank order, then pads
TopK(index, q, tie, keys, k) ==
    IF k = 0 THEN <<>>
    ELSE IF keys = {} THEN <<Pad(index)>> \o TopK(index, q, tie, keys, k - 1)
    ELSE LET least == Least(keys)
             b == RowOfKey(index, tie, least)
         IN  <<[score |-> Score(index, q, b), idx |-> b - 1]>>
                 \o TopK(index, q, tie, keys \ {least}, k - 1)

\* the rows stored with vector v
RowsOf(index, v) == {i \in 1..ntotal(index) : index.xb[i].vec = v}

StoredVecs(index) == {index.xb[j].vec : j \in 1..ntotal(index)}

\* The rows one index.search call for q may look at.  A Flat index scans every
\* row.  An IVF index (nprobe = 1) scans the one inverted list whose centroid
\* is nearest to q; trained on exactly nlist vectors its centroids are those
\* vectors, so the list holds the rows of a stored vector nearest to q.  An
\* HNSW index scans the nodes its graph walk reaches: all rows, or the rows of
\* one stored vector.
Probes(index, q) ==
    LET all == 1..ntotal(index)
        vecs == StoredVecs(index)
    IN  IF index.kind = "Flat" \/ Len(q) # index.d THEN {all}
        ELSE IF index.kind = "IVF"
        THEN {RowsOf(index, v) : v \in {u \in vecs : \A w \in vecs : L2Sqr(q, u) <= L2Sqr(q, w)}}
        ELSE {all} \cup {RowsOf(index, v) : v \in vecs}

\* index.search(q, k): k (score, label) slots
IndexSearch(index, q, k, probe, tie) ==
    TopK(index, q, tie, {Key(index, q, tie, i) : i \in probe}, k)

SearchResults(db, hits) ==
    [i \in 1..Len(hits) |->
        [metadata         |-> db.metadata[hits[i].idx + 1],
         similarity_score |-> hits[i].score,
         index            |-> hits[i].idx]]

\* search without its guard for the empty index
IndexIsEmpty_unguarded(index) == FALSE
\* "if self.index.ntotal == 0"
IndexIsEmpty(index) == ntotal(index) = 0

\* the filter of search without its threshold test
ValidHit_any_score(hit, threshold) == hit.idx # -1
\* "if idx != -1 and score >= threshold"
ValidHit(hit, threshold) == hit.idx # -1 /\ hit.score >= threshold

\* the result of a call: the exception raised, if any, and the list returned
search(db, query_embedding, k, threshold, probe, tie) ==
    IF IndexIsEmpty(db.index)
    THEN [raised |-> None, results |-> <<>>]
    ELSE IF Len(query_embedding) # db.index.d
    THEN [raised |-> "AssertionError", results |-> <<>>]
    ELSE
        LET q == normalize_L2(query_embedding)
            slots == IndexSearch(db.index, q, k, probe, tie)
            Valid(h) == ValidHit(h, threshold)
            hits == SelectSeq(slots, Valid)
        IN  IF \E i \in 1..Len(hits) : hits[i].idx >= Len(db.metadata)
            THEN [raised |-> "IndexError", results |-> <<>>]
            ELSE [raised |-> None, results |-> SearchResults(db, hits)]

----------------------------------------------------------------------------
(* VectorDBManager.save, load, get_stats *)

\* what save pickles into the metadata file
MetadataFile(db) ==
    [metadata   |-> db.metadata,
     dimension  |-> db.dimension,
     index_type |-> db.index_type,
     is_trained |-> db.is_trained]

\* load looking for the index file only
FilesMissing_index_only(index_file, metadata_file) == ~Exists(index_file)
\* "if not Path(index_path).exists() or not Path(metadata_path).exists()"
FilesMissing(index_file, metadata_file) == ~Exists(index_file) \/ ~Exists(metadata_file)

\* the result of a call on the contents of the two paths: the manager
\* afterwards, the value returned and the exception raised, if any.  The
\* index is read and assigned first, the metadata file is opened after it.
\* a load that leaves the strategy of the loading manager as it was
load_keeps_index_type(db, index_file, metadata_file) ==
    IF FilesMissing(index_file, metadata_file)
    THEN [db |-> db, value |-> FALSE, raised |-> None]
    ELSE LET data == Contents(metadata_file)
         IN  [db |-> [dimension  |-> data.dimension,
                      index_type |-> db.index_type,
                      index      |-> Contents(index_file),
                      metadata   |-> data.metadata,
                      is_trained |-> data.is_trained],
              value |-> TRUE, raised |-> None]
load(db, index_file, metadata_file) ==
    IF FilesMissing(index_file, metadata_file)
    THEN [db |-> db, value |-> FALSE, raised |-> None]
    ELSE IF ~Exists(index_file)
    THEN [db |-> db, value |-> FALSE, raised |-> "RuntimeError"]
    ELSE IF ~Exists(metadata_file)
    THEN [db |-> [db EXCEPT !.index = Contents(index_file)],
          value |-> FALSE, raised |-> "FileNotFoundError"]
    ELSE LET data == Contents(metadata_file)
         IN  [db |-> [dimension  |-> data.dimension,
                      index_type |-> data.index_type,
                      index      |-> Contents(index_file),
                      metadata   |-> data.metadata,
                      is_trained |-> data.is_trained],
              value |-> TRUE, raised |-> None]

\* index_size_mb is a float in the code: here numerator and denominator
get_stats(db) ==
    [total_documents |-> Len(db.metadata),
     index_type      |-> db.index_type,
     dimension       |-> db.dimension,
     is_trained      |-> db.is_trained,
     index_size_mb   |-> <<ntotal(db.index) * db.dimension * 4, 1024 * 1024>>]

----------------------------------------------------------------------------
(* EnhancedCookingChatbot: rebuild_vector_database and startup *)

\* the paths startup and rebuild_vector_database use, and one other path of each kind
VectorIndexPath == "./vector_index.faiss"
VectorMetadataPath == "./vector_metadata.pkl"
IndexPaths == {VectorIndexPath, "./other.faiss"}
MetadataPaths == {VectorMetadataPath, "./other.pkl"}
\* the path pairs save is called with
SaveTargets == {<<ip, VectorMetadataPath>> : ip \in IndexPaths}

\* what load_faq_data may return, already encoded: nothing (the file is
\* missing or empty) or too few items to train on
FaqData == {<<>>, Batch(1, 0)}

\* what create_embeddings_for_all_data may return: the documents, each by its source_type
MongoDocuments == {<<>>, <<"recipe">>}

Recipes(documents) == SelectSeq(documents, LAMBDA d : d = "recipe")

\* rebuild_vector_database.  documents is <<>> when mongo_sync is None or the
\* collections are empty.  The FAQ items go in through add_faq_data with the
\* array the model encoded.  Each Mongo document goes in on its own, with its
\* embedding wrapped in a Python list: add_recipe_data reaches
\* embeddings.shape in add_documents (AttributeError), add_faq_data reads
\* item['question'] of a blog or feedback (KeyError).  The save at the end is
\* reached only when nothing raised.
rebuild_vector_database(db, faq_data, documents, first_doc) ==
    LET a == IF faq_data = <<>> THEN [db |-> db, raised |-> None]
             ELSE add_documents(db, faq_data, [i \in 1..Len(faq_data) |-> first_doc + i])
        added == IF faq_data # <<>> /\ a.raised = None THEN Len(faq_data) ELSE 0
    IN  IF a.raised # None
        THEN [db |-> a.db, raised |-> a.raised, saved |-> FALSE, added |-> added, cached |-> FALSE]
        ELSE IF Len(documents) > 0
        THEN [db |-> a.db,
              raised |-> IF documents[1] = "recipe" THEN "AttributeError" ELSE "KeyError",
              saved |-> FALSE, added |-> added, cached |-> TRUE]
        ELSE [db |-> a.db, raised |-> None, saved |-> TRUE, added |-> added, cached |-> FALSE]

\* what a rebuild_vector_database that is not run leaves: nothing raised, nothing stored
\* 24 * 3600 seconds, in days, the unit of the clock
SyncInterval == 1

\* a sync at every call
should_sync_always(last_sync, now) == TRUE
\* "if not self.last_sync_time" or "time_diff.total_seconds() > 24 * 3600"
should_sync(last_sync, now) ==
    last_sync = Nothing \/ now - last_sync[1] > SyncInterval

NoRebuild(db) ==
    [db |-> db, raised |-> None, saved |-> FALSE, added |-> 0, cached |-> FALSE]

----------------------------------------------------------------------------
(* RecipeSearchOptimizer.  A Python str is a sequence of characters; a     *)
(* missing or empty name, a missing or empty ingredients list is <<>>      *)
(* (recipe.get(...) is falsy for both); a missing _id or category is None. *)
(* A character is written as itself, or by its code point ("U+0111").      *)

\* str.lower on one character, for the characters the model uses
LowerChar(c) ==
    CASE c = "B" -> "b"
      [] c = "C" -> "c"
      [] c = "G" -> "g"
      [] c = "M" -> "m"
      [] c = "N" -> "n"
      [] c = "P" -> "p"
      [] c = "R" -> "r"
      [] c = "T" -> "t"
      [] c = "Ú" -> "ú"
      [] OTHER -> c

RECURSIVE LowerFrom(_, _)
\* str.lower from character i on: one character for each character, but
\* two ("i" and U+0307) for U+0130, the capital I with a dot above
LowerFrom(s, i) ==
    IF i > Len(s) THEN <<>>
    ELSE (IF s[i] = "U+0130" THEN <<"i", "U+0307">> ELSE <<LowerChar(s[i])>>)
            \o LowerFrom(s, i + 1)

\* str.lower
lower(s) ==
    IF \A i \in 1..Len(s) : s[i] # "U+0130"
    THEN [i \in 1..Len(s) |-> LowerChar(s[i])] \o <<>>
    ELSE LowerFrom(s, 1)

\* "t in s" for two strings
In(t, s) ==
    \E text \in {s} :
        \E i \in 0..(Len(text) - Len(t)) : SubSeq(text, i + 1, i + Len(t)) = t

RECURSIVE join(_, _)
\* sep.join(strs)
join(sep, strs) ==
    IF strs = <<>> THEN <<>>
    ELSE IF Len(strs) = 1 THEN strs[1]
    ELSE strs[1] \o sep \o join(sep, Tail(strs))

\* the recipes of the Document Store
Recipe(id, name, ingredients, category) ==
    [_id |-> id, name |-> name, ingredients |-> ingredients, category |-> category]

RecipeDocs ==
    {Recipe("r1", <<"B", "ú", "n", " ", "B", "ò">>, <<<<"B", "ò">>>>, "monchinh"),
     Recipe("r2", <<>>, <<<<"G", "à">>, <<"h", "à", "n", "h">>>>, "monchinh"),
     Recipe("r1", <<"M", "ó", "n", " ", "c", "h", "í", "n", "h">>, <<>>, "monphu"),
     Recipe(None, <<"G", "à", " ", "h", "à", "n", "h">>, <<<<"b", "ú", "n">>>>, None)}

\* a retrieved document: the keys the scorer reads, and the two more the
\* optimizer reads; a missing key is <<>>, Nothing or None
Doc(id, type, name, searchable_text, question, answer, createdAt, ingredients, instructions) ==
    [_id |-> id, type |-> type, name |-> name, searchable_text |-> searchable_text,
     question |-> question, answer |-> answer, createdAt |-> createdAt,
     ingredients |-> ingredients, instructions |-> instructions, category |-> None]

\* a createdAt value: a naive datetime, or a str
Datetime(day) == [isa |-> "datetime", tzinfo |-> None, day |-> day]
IsoString(day, suffix) == [isa |-> "str", parses |-> TRUE, day |-> day, suffix |-> suffix]
NotADate == [isa |-> "str", parses |-> FALSE, day |-> 0, suffix |-> ""]

\* the scenario: a recipe named 'Phở Bò' with its ingredients and
\* instructions, an FAQ about something else, and the query
ScenarioRecipe ==
    Doc("recipe1", "recipe", <<"P", "h", "U+1EDF", " ", "B", "ò">>,
        <<"P", "h", "U+1EDF", " ", "B", "ò", " ", "M", "ó", "n", " ", "p", "h", "U+1EDF", " ", "b", "ò", " ", "t", "h", "U+01A1", "m", " ", "n", "g", "o", "n", " ", "b", "á", "n", "h", " ", "p", "h", "U+1EDF", " ", "t", "h", "U+1ECB", "t", " ", "b", "ò">>,
        <<>>, <<>>, Some(Datetime(-73)),
        <<<<"b", "á", "n", "h", " ", "p", "h", "U+1EDF">>, <<"t", "h", "U+1ECB", "t", " ", "b", "ò">>>>,
        <<<<"h", "U+1EA7", "m", " ", "x", "U+01B0", "U+01A1", "n", "g">>, <<"t", "r", "U+1EE5", "n", "g", " ", "b", "á", "n", "h", " ", "p", "h", "U+1EDF">>, <<"c", "h", "a", "n", " ", "n", "U+01B0", "U+1EDB", "c", " ", "d", "ù", "n", "g">>>>)
ScenarioFaq ==
    Doc("faq1", "faq", <<>>, <<>>, <<"R", "U+1EED", "a", " ", "r", "a", "u", " ", "t", "h", "U+1EBF", " ", "n", "à", "o", "?">>, <<"N", "g", "â", "m", " ", "n", "U+01B0", "U+1EDB", "c", " ", "m", "u", "U+1ED1", "i", ".">>,
        Nothing, <<>>, <<>>)
ScenarioQuery == <<"c", "á", "c", "h", " ", "l", "à", "m", " ", "p", "h", "U+1EDF", " ", "b", "ò">>

\* a retrieved document as the optimizer reads it
AsRecipe(doc) == Recipe(doc._id, doc.name, doc.ingredients, doc.category)

\* the scenario's documents as a recipes list
ScenarioStore == <<AsRecipe(ScenarioRecipe), AsRecipe(ScenarioFaq)>>

\* a recipes list with more documents than a result list may hold, each with
\* an id of its own
ManyRecipes ==
    [i \in 1..11 |-> Recipe(ToString(i), <<"B", "ú", "n">>, <<>>, "douong")]

\* the recipes lists: up to MaxRecipes documents, ids may repeat or be
\* missing, the long list, and the scenario's
DocumentStores ==
    UNION {[1..n -> RecipeDocs] : n \in 0..MaxRecipes} \cup {ManyRecipes, ScenarioStore}

\* the queries: a name in another case, a text across two ingredients, a
\* category phrase in another case, two category phrases with the later one
\* of the dict first, the empty query, the scenario's
MergeQueries ==
    {ScenarioQuery,
     <<"B", "Ú", "N">>,
     <<"g", "à", " ", "h">>,
     <<"M", "ó", "n", " ", "C", "h", "í", "n", "h">>,
     <<"m", "ó", "n", " ", "p", "h", "U+1EE5", " ", "h", "a", "y", " ", "m", "ó", "n", " ", "c", "h", "í", "n", "h">>,
     <<>>}

\* what model.encode([query]) may give, and the rows an embeddings array may hold
QueryEmbeddings == {Vec(6, 8, Dim), Vec(8, 6, Dim)}
RecipeEmbeddings == {Vec(6, 8, Dim), Vec(8, 6, Dim), Vec(-6, -8, Dim)}

\* the embeddings arguments for a recipes list: None, an array with one row
\* per recipe (every array for a short list, the arrays of equal rows for
\* the long one), an array with one row too many
EmbeddingsFor(recipes_list) ==
    {Nothing}
        \cup (IF Len(recipes_list) <= MaxRecipes
              THEN {Some(e) : e \in [1..Len(recipes_list) -> RecipeEmbeddings]}
              ELSE {Some([i \in 1..Len(recipes_list) |-> v]) : v \in RecipeEmbeddings})
        \cup {Some([i \in 1..(Len(recipes_list) + 1) |-> Vec(6, 8, Dim)])}

Models == {None, "SentenceTransformer"}

\* {**recipe, 'match_type': match_type}, with 'similarity_score' when there is one
Tagged(recipe, match_type, similarity_score) ==
    [_id |-> recipe._id, name |-> recipe.name, ingredients |-> recipe.ingredients,
     category |-> recipe.category, match_type |-> match_type,
     similarity_score |-> similarity_score]

_exact_match_search(query, recipes_list) ==
    LET query_lower == lower(query)
        hit(recipe) == recipe.name # <<>> /\ In(query_lower, lower(recipe.name))
        found == SelectSeq(recipes_list, hit)
    IN  [i \in 1..Len(found) |-> Tagged(found[i], "exact_name", Nothing)]

_ingredient_based_search(query, recipes_list) ==
    LET query_lower == lower(query)
        hit(recipe) ==
            /\ recipe.ingredients # <<>>
            /\ In(query_lower, lower(join(<<" ">>, recipe.ingredients)))
        found == SelectSeq(recipes_list, hit)
    IN  [i \in 1..Len(found) |-> Tagged(found[i], "ingredient", Nothing)]

\* 0.7, the default threshold of _semantic_search, in hundredths
SemanticThreshold == 70

\* a sort that puts each entry in front of the ones before it
SortedInsert_front(sorted, e) == <<e>> \o sorted
\* results.sort(key=similarity_score, reverse=True): e goes after the entries
\* of the sorted list that are not below it (the sort is stable)
SortedInsert(sorted, e) ==
    LET k == Cardinality({i \in 1..Len(sorted) :
                 sorted[i].similarity_score[1] >= e.similarity_score[1]})
    IN  SubSeq(sorted, 1, k) \o <<e>> \o SubSeq(sorted, k + 1, Len(sorted))

RECURSIVE SortBySimilarity(_, _, _)
SortBySimilarity(results, i, sorted) ==
    IF i > Len(results) THEN sorted
    ELSE SortBySimilarity(results, i + 1, SortedInsert(sorted, results[i]))

\* query_embedding is what model.encode([query]) gave
_semantic_search(query_embedding, recipes_list, embeddings, threshold) ==
    IF Len(recipes_list) # Len(embeddings) THEN <<>>
    ELSE LET similarities == [i \in 1..Len(recipes_list) |-> Dot(embeddings[i], query_embedding)]
             hits == SelectSeq([i \in 1..Len(recipes_list) |-> i],
                               LAMBDA i : similarities[i] >= threshold)
             results == [j \in 1..Len(hits) |->
                            Tagged(recipes_list[hits[j]], "semantic", Some(similarities[hits[j]]))]
         IN  SortBySimilarity(results, 1, <<>>)

\* the dict of _category_filter_search, in its insertion order
category_keywords ==
    <<[keyword |-> <<"m", "ó", "n", " ", "c", "h", "í", "n", "h">>, category |-> "monchinh"],
      [keyword |-> <<"m", "ó", "n", " ", "p", "h", "U+1EE5">>, category |-> "monphu"],
      [keyword |-> <<"t", "r", "á", "n", "g", " ", "m", "i", "U+1EC7", "n", "g">>, category |-> "trangmieng"],
      [keyword |-> <<"U+0111", "U+1ED3", " ", "u", "U+1ED1", "n", "g">>, category |-> "douong"],
      [keyword |-> <<"U+0103", "n", " ", "v", "U+1EB7", "t">>, category |-> "anvat"]>>

\* the filter led by the last phrase of the dict that the query holds
_category_filter_search_last_phrase(query, recipes_list) ==
    LET query_lower == lower(query)
        found_keywords == {i \in 1..Len(category_keywords) :
                              In(category_keywords[i].keyword, query_lower)}
    IN  IF found_keywords = {} THEN <<>>
        ELSE LET target_category ==
                     category_keywords[CHOOSE i \in found_keywords :
                                           \A j \in found_keywords : j <= i].category
                 hit(recipe) == recipe.category = target_category
                 found == SelectSeq(recipes_list, hit)
             IN  [i \in 1..Len(found) |-> Tagged(found[i], "category", Nothing)]
_category_filter_search(query, recipes_list) ==
    LET query_lower == lower(query)
        found_keywords == {i \in 1..Len(category_keywords) :
                              In(category_keywords[i].keyword, query_lower)}
    IN  IF found_keywords = {} THEN <<>>
        ELSE LET target_category == category_keywords[Least(found_keywords)].category
                 hit(recipe) == recipe.category = target_category
                 found == SelectSeq(recipes_list, hit)
             IN  [i \in 1..Len(found) |-> Tagged(found[i], "category", Nothing)]

\* all_results with the four lists in another order: the semantic one first
AllResults_semantic_first(exact_results, ingredient_results, category_results, semantic_results) ==
    semantic_results \o exact_results \o ingredient_results \o category_results
\* all_results after the four extend calls
AllResults(exact_results, ingredient_results, category_results, semantic_results) ==
    exact_results \o ingredient_results \o category_results \o semantic_results

\* the loop over all_results without the seen_ids test
UniqueResults_keep_all(all_results, i, seen_ids) == SubSeq(all_results, i, Len(all_results))
RECURSIVE UniqueResults(_, _, _)
\* the loop over all_results from entry i on, seen_ids being the ids met before
UniqueResults(all_results, i, seen_ids) ==
    IF i > Len(all_results) THEN <<>>
    ELSE LET recipe_id == all_results[i]._id
         IN  IF recipe_id \in seen_ids
             THEN UniqueResults(all_results, i + 1, seen_ids)
             ELSE <<all_results[i]>>
                     \o UniqueResults(all_results, i + 1, seen_ids \cup {recipe_id})

\* "unique_results[:10]"
TopResults == 10

\* the guard of strategy 4 looking at embeddings only
SemanticRuns_embeddings_only(embeddings, model) == embeddings # Nothing
\* "if embeddings is not None and model is not None"
SemanticRuns(embeddings, model) == embeddings # Nothing /\ model # None

\* what a _semantic_search call raises, if anything: len(None), or
\* None.encode once the lengths agree
_semantic_search_raises(recipes_list, embeddings, model) ==
    IF embeddings = Nothing THEN "TypeError"
    ELSE IF Len(recipes_list) # Len(embeddings[1]) THEN None
    ELSE IF model = None THEN "AttributeError"
    ELSE None

\* what a multi_strategy_search call raises, if anything
multi_strategy_search_raises(recipes_list, embeddings, model) ==
    IF SemanticRuns(embeddings, model)
    THEN _semantic_search_raises(recipes_list, embeddings, model)
    ELSE None

\* the list a call that raises nothing returns
multi_strategy_search(query, recipes_list, embeddings, model, query_embedding) ==
    LET exact_results == _exact_match_search(query, recipes_list)
        ingredient_results == _ingredient_based_search(query, recipes_list)
        category_results == _category_filter_search(query, recipes_list)
        semantic_results ==
            IF SemanticRuns(embeddings, model)
            THEN _semantic_search(query_embedding, recipes_list, embeddings[1], SemanticThreshold)
            ELSE <<>>
        all_results == AllResults(exact_results, ingredient_results,
                                  category_results, semantic_results)
        unique_results == UniqueResults(all_results, 1, {})
    IN  SubSeq(unique_results, 1,
               IF Len(unique_results) < TopResults THEN Len(unique_results) ELSE TopResults)

----------------------------------------------------------------------------
(* AdvancedConfidenceScorer.  A float is a whole number of units of 1/One, *)
(* rounded down where a quotient is not whole; a similarity score is in    *)
(* hundredths; overall_score, a sum of weight x factor with the weights in *)
(* hundredths, is in units of 1/(100 * One).  A time is a number of days.  *)

\* the float 1.0
One == 6000

\* k tenths
Tenths(k) == k * (One \div 10)

Min2(a, b) == IF a <= b THEN a ELSE b
Max2(a, b) == IF a >= b THEN a ELSE b

RECURSIVE SumFrom(_, _)
\* the sum of the elements of s from element i on
SumFrom(s, i) == IF i > Len(s) THEN 0 ELSE s[i] + SumFrom(s, i + 1)

\* sum(s)
SumSeq(s) == SumFrom(s \o <<>>, 1)

\* np.mean of a non-empty list
Mean(s) == LET values == s \o <<>> IN SumFrom(values, 1) \div Len(values)

\* any(word in text for word in words)
AnyIn(words, text) == \E s \in {text} : \E i \in 1..Len(words) : In(words[i], s)

\* a string of n characters c
Repeat(c, n) == [i \in 1..n |-> c]

\* the characters that \w does not match, among those the model uses
NonWordChars == {" ", "?", ".", ",", ":", "-", "U+2022", "U+0307"}

\* set(re.findall(r'\b\w+\b', s)): the runs of \w characters of s that no
\* \w character precedes or follows
Words(s) ==
    LET IsWord(i) == s[i] \notin NonWordChars
        starts == {i \in 1..Len(s) : IsWord(i) /\ (i = 1 \/ ~IsWord(i - 1))}
        ends == {j \in 1..Len(s) : IsWord(j) /\ (j = Len(s) \/ ~IsWord(j + 1))}
        end(i) == CHOOSE j \in ends : j >= i /\ \A k \in ends : k >= i => j <= k
    IN  {SubSeq(s, i, end(i)) : i \in starts}

RECURSIVE strip(_)
\* str.strip for the whitespace the model uses
strip(s) ==
    IF s = <<>> THEN s
    ELSE IF Head(s) = " " THEN strip(Tail(s))
    ELSE IF s[Len(s)] = " " THEN strip(SubSeq(s, 1, Len(s) - 1))
    ELSE s

\* str.endswith
endswith(s, t) == Len(s) >= Len(t) /\ SubSeq(s, Len(s) - Len(t) + 1, Len(s)) = t

\* the factors, in the order calculate_confidence fills the dict
Factors ==
    <<"semantic_similarity", "keyword_match", "context_relevance", "data_freshness",
      "source_reliability", "query_clarity", "answer_completeness">>

\* self.weights, in hundredths
weights ==
    [semantic_similarity |-> 25, keyword_match |-> 20, context_relevance |-> 15,
     data_freshness |-> 10, source_reliability |-> 10, query_clarity |-> 10,
     answer_completeness |-> 10]

\* self.cooking_keywords
cooking_keywords ==
    <<[category |-> "ingredients",
       keywords |-> <<<<"n", "g", "u", "y", "ê", "n", " ", "l", "i", "U+1EC7", "u">>, <<"t", "h", "à", "n", "h", " ", "p", "h", "U+1EA7", "n">>, <<"g", "i", "a", " ", "v", "U+1ECB">>, <<"r", "a", "u", " ", "c", "U+1EE7">>, <<"t", "h", "U+1ECB", "t">>, <<"c", "á">>>>],
      [category |-> "cooking_methods",
       keywords |-> <<<<"n", "U+1EA5", "u">>, <<"c", "h", "i", "ê", "n">>, <<"l", "u", "U+1ED9", "c">>, <<"n", "U+01B0", "U+1EDB", "n", "g">>, <<"x", "à", "o">>, <<"h", "U+1EA5", "p">>, <<"o", "m">>, <<"k", "h", "o">>>>],
      [category |-> "time_related",
       keywords |-> <<<<"t", "h", "U+1EDD", "i", " ", "g", "i", "a", "n">>, <<"p", "h", "ú", "t">>, <<"g", "i", "U+1EDD">>, <<"n", "h", "a", "n", "h">>, <<"c", "h", "U+1EAD", "m">>, <<"l", "â", "u">>>>],
      [category |-> "difficulty",
       keywords |-> <<<<"d", "U+1EC5">>, <<"k", "h", "ó">>, <<"U+0111", "U+01A1", "n", " ", "g", "i", "U+1EA3", "n">>, <<"p", "h", "U+1EE9", "c", " ", "t", "U+1EA1", "p">>, <<"c", "U+01A1", " ", "b", "U+1EA3", "n">>, <<"n", "â", "n", "g", " ", "c", "a", "o">>>>],
      [category |-> "taste",
       keywords |-> <<<<"n", "g", "o", "n">>, <<"n", "g", "U+1ECD", "t">>, <<"m", "U+1EB7", "n">>, <<"c", "h", "u", "a">>, <<"c", "a", "y">>, <<"U+0111", "U+1EAF", "n", "g">>, <<"b", "é", "o">>>>],
      [category |-> "nutrition",
       keywords |-> <<<<"d", "i", "n", "h", " ", "d", "U+01B0", "U+1EE1", "n", "g">>, <<"v", "i", "t", "a", "m", "i", "n">>, <<"p", "r", "o", "t", "e", "i", "n">>, <<"c", "a", "r", "b">>, <<"c", "h", "U+1EA5", "t", " ", "b", "é", "o">>, <<"c", "a", "l", "o">>>>]>>

\* datetime.fromisoformat(created_at.replace('Z', '+00:00')): a datetime that
\* is aware when the string ends with an offset, or ValueError
fromisoformat(created_at) ==
    IF ~created_at.parses THEN [isa |-> "ValueError"]
    ELSE [isa |-> "datetime",
          tzinfo |-> IF created_at.suffix = "" THEN None ELSE "UTC",
          day |-> created_at.day]

\* np.exp(-i * 0.5), in units of 1/100000
ExpDecay == <<100000, 60653, 36788, 22313, 13534>>

\* 2 / (1 + np.exp(-4 * (w - 0.5))) for w = -1.00, -0.99, ..., 1.00
SigmoidTable ==
    <<29, 30, 32, 33, 34, 36, 37, 39, 40, 42, 44, 46,
      47, 49, 51, 53, 56, 58, 60, 63, 65, 68, 71, 74,
      77, 80, 83, 86, 90, 94, 97, 101, 106, 110, 114, 119,
      124, 129, 134, 139, 145, 151, 157, 163, 170, 177, 184, 191,
      199, 207, 215, 224, 233, 242, 252, 262, 273, 283, 295, 306,
      319, 331, 344, 358, 372, 387, 402, 418, 435, 452, 469, 488,
      507, 527, 547, 569, 591, 614, 637, 662, 687, 714, 741, 769,
      799, 829, 861, 893, 927, 962, 998, 1035, 1073, 1113, 1154, 1197,
      1240, 1286, 1332, 1380, 1430, 1481, 1534, 1588, 1644, 1702, 1761, 1822,
      1885, 1949, 2015, 2083, 2153, 2225, 2298, 2373, 2450, 2529, 2610, 2693,
      2777, 2864, 2952, 3042, 3133, 3227, 3322, 3419, 3518, 3618, 3720, 3823,
      3928, 4035, 4142, 4252, 4362, 4474, 4587, 4700, 4815, 4931, 5048, 5165,
      5283, 5401, 5521, 5640, 5760, 5880, 6000, 6119, 6239, 6359, 6478, 6598,
      6716, 6834, 6951, 7068, 7184, 7299, 7412, 7525, 7637, 7747, 7857, 7964,
      8071, 8176, 8279, 8381, 8481, 8580, 8677, 8772, 8866, 8957, 9047, 9135,
      9222, 9306, 9389, 9470, 9549, 9626, 9701, 9774, 9846, 9916, 9984, 10050,
      10114, 10177, 10238, 10297, 10355, 10411, 10465, 10518, 10569>>

Sigmoid(weighted_avg) == SigmoidTable[weighted_avg + 101]

_calculate_semantic_similarity(similarity_scores) ==
    IF similarity_scores = <<>> THEN 0
    ELSE LET n == Len(similarity_scores)
             weighted_avg ==
                 SumSeq([i \in 1..n |-> similarity_scores[i] * ExpDecay[i]])
                     \div SumSeq([i \in 1..n |-> ExpDecay[i]])
             sigmoid_score == Sigmoid(weighted_avg)
         IN  Min2(sigmoid_score, One)

\* doc_text of _calculate_keyword_match
KeywordText(doc) ==
    IF doc.type = "recipe" THEN doc.name \o <<" ">> \o doc.searchable_text
    ELSE IF doc.type = "faq" THEN doc.question \o <<" ">> \o doc.answer
    ELSE <<>>

_calculate_keyword_match(query, docs) ==
    IF docs = <<>> THEN 0
    ELSE LET query_words == Words(lower(query))
             total_possible == Cardinality(query_words)
             total_matches ==
                 SumSeq([i \in 1..Len(docs) |->
                            Cardinality(query_words \cap Words(lower(KeywordText(docs[i]))))])
         IN  IF total_possible = 0 THEN 0
             ELSE Min2((One * total_matches) \div (Len(docs) * total_possible), One)

\* doc_text of _calculate_context_relevance
ContextText(doc) ==
    IF doc.type = "recipe" THEN lower(doc.searchable_text)
    ELSE IF doc.type = "faq" THEN lower(doc.question \o <<" ">> \o doc.answer)
    ELSE <<>>

_calculate_context_relevance(query, docs) ==
    IF docs = <<>> THEN 0
    ELSE LET query_lower == lower(query)
             matched(doc) ==
                 {c \in 1..Len(cooking_keywords) :
                     /\ AnyIn(cooking_keywords[c].keywords, query_lower)
                     /\ AnyIn(cooking_keywords[c].keywords, ContextText(doc))}
             score(doc) ==
                 Tenths(2) * Cardinality(matched(doc))
                     + (IF /\ In(<<"c", "ô", "n", "g", " ", "t", "h", "U+1EE9", "c">>, query_lower) \/ In(<<"c", "á", "c", "h", " ", "l", "à", "m">>, query_lower)
                           /\ doc.type = "recipe"
                        THEN Tenths(3) ELSE 0)
                     + (IF /\ AnyIn(<<<<"t", "U+1EA1", "i", " ", "s", "a", "o">>, <<"l", "à", "m", " ", "s", "a", "o">>, <<"n", "h", "U+01B0", " ", "t", "h", "U+1EBF", " ", "n", "à", "o">>, <<"c", "ó", " ", "n", "ê", "n">>>>, query_lower)
                           /\ doc.type = "faq"
                        THEN Tenths(3) ELSE 0)
         IN  Mean([i \in 1..Len(docs) |-> Min2(score(docs[i]), One)])

\* the freshness of one document at current_time
Freshness(doc, current_time) ==
    IF doc.type = "recipe"
    THEN IF doc.createdAt # Nothing
         THEN LET created_at == doc.createdAt[1]
                  created_time == IF created_at.isa = "str" THEN fromisoformat(created_at)
                                  ELSE created_at
              IN  IF created_time.isa = "ValueError" THEN Tenths(7)
                  ELSE IF created_time.tzinfo # None THEN Tenths(7)
                  ELSE LET days_old == current_time - created_time.day
                       IN  Max2(0, (One * (365 - days_old)) \div 365)
         ELSE Tenths(7)
    ELSE Tenths(8)

_calculate_data_freshness(docs, current_time) ==
    IF docs = <<>> THEN Tenths(5)
    ELSE Mean([i \in 1..Len(docs) |-> Freshness(docs[i], current_time)])

\* the reliability of one document
Reliability(doc) ==
    IF doc.type = "recipe"
    THEN Tenths(8)
            + (IF doc.ingredients # <<>> /\ doc.instructions # <<>> THEN Tenths(1) ELSE 0)
            + (IF Len(doc.instructions) >= 3 THEN Tenths(1) ELSE 0)
    ELSE IF doc.type = "faq"
    THEN Tenths(9) + (IF Len(doc.answer) > 50 THEN Tenths(1) ELSE 0)
    ELSE Tenths(5)

_calculate_source_reliability(docs) ==
    IF docs = <<>> THEN Tenths(5)
    ELSE Mean([i \in 1..Len(docs) |-> Min2(Reliability(docs[i]), One)])

\* a guard that lets every query through
QueryTooShort_never(query_lower) == FALSE
\* "len(query_lower) < 5"
QueryTooShort(query_lower) == Len(query_lower) < 5

_calculate_query_clarity(query) ==
    LET query_lower == strip(lower(query))
        length == Len(query_lower)
        specific_words == <<<<"c", "á", "c", "h", " ", "l", "à", "m">>, <<"c", "ô", "n", "g", " ", "t", "h", "U+1EE9", "c">>, <<"n", "g", "u", "y", "ê", "n", " ", "l", "i", "U+1EC7", "u">>, <<"t", "h", "U+1EDD", "i", " ", "g", "i", "a", "n">>, <<"l", "à", "m", " ", "s", "a", "o">>>>
        question_words == <<<<"g", "ì">>, <<"s", "a", "o">>, <<"n", "à", "o">>, <<"b", "a", "o", " ", "n", "h", "i", "ê", "u">>, <<"n", "h", "U+01B0", " ", "t", "h", "U+1EBF", " ", "n", "à", "o">>>>
        score ==
            Tenths(5)
                + (IF 10 <= length /\ length <= 50 THEN Tenths(2)
                   ELSE IF length > 50 THEN Tenths(1) ELSE 0)
                + (IF AnyIn(specific_words, query_lower) THEN Tenths(2) ELSE 0)
                + (IF AnyIn(question_words, query_lower) THEN Tenths(1) ELSE 0)
                + (IF endswith(query_lower, <<"?">>) THEN Tenths(1) ELSE 0)
    IN  IF QueryTooShort(query_lower) THEN Tenths(2) ELSE Min2(score, One)

\* the guard looking at emptiness only
AnswerTooShort_empty_only(answer) == answer = <<>>
\* "not answer or len(answer) < 10"
AnswerTooShort(answer) == answer = <<>> \/ Len(answer) < 10

_calculate_answer_completeness(query, answer) ==
    IF AnswerTooShort(answer) THEN Tenths(1)
    ELSE LET answer_length == Len(answer)
             query_lower == lower(query)
             answer_lower == lower(answer)
             score ==
                 Tenths(5)
                     + (IF 50 <= answer_length /\ answer_length <= 500 THEN Tenths(2)
                        ELSE IF answer_length > 500 THEN Tenths(1) ELSE 0)
                     + (IF AnyIn(<<<<"1", ".">>, <<"2", ".">>, <<"-">>, <<"U+2022">>>>, answer) THEN Tenths(1) ELSE 0)
                     + (IF In(<<"c", "á", "c", "h", " ", "l", "à", "m">>, query_lower) \/ In(<<"c", "ô", "n", "g", " ", "t", "h", "U+1EE9", "c">>, query_lower)
                        THEN (IF In(<<"n", "g", "u", "y", "ê", "n", " ", "l", "i", "U+1EC7", "u">>, answer_lower) THEN Tenths(1) ELSE 0)
                                + (IF AnyIn(<<<<"b", "U+01B0", "U+1EDB", "c">>, <<"c", "á", "c", "h">>, <<"l", "à", "m">>>>, answer_lower)
                                   THEN Tenths(1) ELSE 0)
                        ELSE 0)
         IN  Min2(score, One)

\* the ladder without its lowest rung
_get_confidence_level_no_low(score) ==
    IF score >= 90 * One THEN "very_high"
    ELSE IF score >= 70 * One THEN "high"
    ELSE IF score >= 50 * One THEN "medium"
    ELSE "very_low"
\* score is in units of 1/(100 * One)
_get_confidence_level(score) ==
    IF score >= 90 * One THEN "very_high"
    ELSE IF score >= 70 * One THEN "high"
    ELSE IF score >= 50 * One THEN "medium"
    ELSE IF score >= 30 * One THEN "low"
    ELSE "very_low"

\* the sum without its last term
WeightedSum_six(factors) ==
    SumSeq([i \in 1..(Len(Factors) - 1) |-> factors[Factors[i]] * weights[Factors[i]]])
\* sum(factors[factor] * self.weights[factor] for factor in factors)
WeightedSum(factors) ==
    SumSeq([i \in 1..Len(Factors) |-> factors[Factors[i]] * weights[Factors[i]]])

\* f"{x:.2f}" of x units of 1/unit: the nearest number of hundredths (a
\* value halfway between two is taken up)
Format2f(x, unit) == (200 * x + unit) \div (2 * unit)

\* the place of the i-th item of factors.items() in
\* sorted(factors.items(), key=lambda x: x[1], reverse=True): after the items
\* of a greater value and, the sort being stable, after the earlier items of
\* the same value
SortedPlace(factors, i) ==
    1 + Cardinality({j \in 1..Len(Factors) :
            \/ factors[Factors[j]] > factors[Factors[i]]
            \/ (factors[Factors[j]] = factors[Factors[i]] /\ j < i)})

\* sorted_factors, as the names of the factors
sorted_factors(factors) ==
    [p \in 1..Len(Factors) |->
        Factors[CHOOSE i \in 1..Len(Factors) : SortedPlace(factors, i) = p]]

\* the three parts of the explanation, which " | " joins
_generate_explanation(factors, overall_score) ==
    LET strongest == sorted_factors(factors)[1]
        weakest == sorted_factors(factors)[Len(Factors)]
    IN  [overall_score |-> Format2f(overall_score, 100 * One),
         strongest |-> [name |-> strongest, value |-> Format2f(factors[strongest], One)],
         weakest |-> [name |-> weakest, value |-> Format2f(factors[weakest], One)]]

\* the messages of _generate_recommendations
MoreSpecificKeywords == <<"T", "h", "U+1EED", " ", "U+0111", "U+1EB7", "t", " ", "c", "â", "u", " ", "h", "U+1ECF", "i", " ", "v", "U+1EDB", "i", " ", "t", "U+1EEB", " ", "k", "h", "ó", "a", " ", "c", "U+1EE5", " ", "t", "h", "U+1EC3", " ", "h", "U+01A1", "n">>
MorePreciseTerms == <<"S", "U+1EED", " ", "d", "U+1EE5", "n", "g", " ", "t", "h", "u", "U+1EAD", "t", " ", "n", "g", "U+1EEF", " ", "n", "U+1EA5", "u", " ", "U+0103", "n", " ", "c", "h", "í", "n", "h", " ", "x", "á", "c", " ", "h", "U+01A1", "n">>
ClarifyQuestion == <<"L", "à", "m", " ", "r", "õ", " ", "c", "â", "u", " ", "h", "U+1ECF", "i", " ", "v", "U+1EDB", "i", " ", "c", "h", "i", " ", "t", "i", "U+1EBF", "t", " ", "c", "U+1EE5", " ", "t", "h", "U+1EC3">>
FairlyGood == <<"K", "U+1EBF", "t", " ", "q", "u", "U+1EA3", " ", "k", "h", "á", " ", "t", "U+1ED1", "t", ",", " ", "c", "ó", " ", "t", "h", "U+1EC3", " ", "c", "U+1EA7", "n", " ", "t", "h", "ê", "m", " ", "t", "h", "ô", "n", "g", " ", "t", "i", "n", " ", "U+0111", "U+1EC3", " ", "c", "h", "í", "n", "h", " ", "x", "á", "c", " ", "h", "U+01A1", "n">>
HighConfidence == <<"K", "U+1EBF", "t", " ", "q", "u", "U+1EA3", " ", "c", "ó", " ", "U+0111", "U+1ED9", " ", "t", "i", "n", " ", "c", "U+1EAD", "y", " ", "c", "a", "o">>

\* the branch of the low levels taken at "very_low" only
IsLowLevel_very_low_only(level) == level = "very_low"
\* "level in [ConfidenceLevel.LOW, ConfidenceLevel.VERY_LOW]"
IsLowLevel(level) == level \in {"low", "very_low"}

_generate_recommendations(factors, level) ==
    IF IsLowLevel(level)
    THEN (IF factors.semantic_similarity < Tenths(5) THEN <<MoreSpecificKeywords>> ELSE <<>>)
            \o (IF factors.keyword_match < Tenths(5) THEN <<MorePreciseTerms>> ELSE <<>>)
            \o (IF factors.query_clarity < Tenths(5) THEN <<ClarifyQuestion>> ELSE <<>>)
    ELSE IF level = "medium" THEN <<FairlyGood>>
    ELSE <<HighConfidence>>

\* the ConfidenceScore of a call made at current_time
calculate_confidence(query, docs, similarity_scores, answer, current_time) ==
    LET factors ==
            [semantic_similarity |-> _calculate_semantic_similarity(similarity_scores),
             keyword_match |-> _calculate_keyword_match(query, docs),
             context_relevance |-> _calculate_context_relevance(query, docs),
             data_freshness |-> _calculate_data_freshness(docs, current_time),
             source_reliability |-> _calculate_source_reliability(docs),
             query_clarity |-> _calculate_query_clarity(query),
             answer_completeness |-> _calculate_answer_completeness(query, answer)]
        overall_score == WeightedSum(factors)
        level == _get_confidence_level(overall_score)
    IN  [overall_score |-> overall_score,
         level |-> level,
         factors |-> factors,
         explanation |-> _generate_explanation(factors, overall_score),
         recommendations |-> _generate_recommendations(factors, level)]

\* the retrieved documents: the two of the scenario; recipes created a year
\* after the clock, given with a 'Z' string, given with a string that is no
\* date, created long ago and given with a plain ISO string, without
\* createdAt; an FAQ with a long answer; a document of another type
ScoredDocs ==
    {ScenarioRecipe,
     ScenarioFaq,
     Doc("recipe2", "recipe", <<"B", "ú", "n", " ", "B", "ò">>, <<"B", "ú", "n", " ", "B", "ò", " ", "b", "ú", "n", " ", "t", "h", "U+1ECB", "t", " ", "b", "ò">>, <<>>, <<>>,
         Some(Datetime(365)), <<<<"b", "ú", "n">>>>, <<>>),
     Doc("recipe3", "recipe", <<"G", "à", " ", "k", "h", "o">>, <<"G", "à", " ", "k", "h", "o", " ", "g", "à">>, <<>>, <<>>,
         Some(IsoString(-10, "Z")), <<>>, <<<<"k", "h", "o", " ", "g", "à">>>>),
     Doc("recipe4", "recipe", <<"C", "á", " ", "c", "h", "i", "ê", "n">>, <<>>, <<>>, <<>>,
         Some(IsoString(-400, "")), <<<<"c", "á">>>>, <<>>),
     Doc("recipe5", "recipe", <<>>, <<>>, <<>>, <<>>, Some(NotADate), <<>>, <<>>),
     Doc("faq2", "faq", <<>>, <<>>, <<"T", "U+1EA1", "i", " ", "s", "a", "o", " ", "p", "h", "U+1EDF", " ", "n", "g", "o", "n", "?">>,
         <<"P", "h", "U+1EDF", " ", "n", "g", "o", "n", " ", "n", "h", "U+1EDD", " ", "n", "U+01B0", "U+1EDB", "c", " ", "d", "ù", "n", "g", " ", "n", "U+1EA5", "u", " ", "l", "â", "u", " ">> \o Repeat("a", 30), Nothing, <<>>, <<>>),
     Doc("blog1", None, <<>>, <<>>, <<>>, <<>>, Nothing, <<>>, <<>>)}

\* the retrieved_docs lists
RetrievedDocs == UNION {[1..n -> ScoredDocs] : n \in 0..MaxDocs}

\* the queries: the empty one, short ones with a question word and a
\* question mark, a short one that lower() makes longer, the scenario's, one
\* that asks why, a long one
ConfidenceQueries ==
    {<<>>,
     <<"g", "ì", "?">>,
     <<" ", "s", "a", "o", " ">>,
     <<"U+0130", "U+0130", "U+0130">>,
     ScenarioQuery,
     <<"T", "U+1EA1", "i", " ", "s", "a", "o", " ", "p", "h", "U+1EDF", " ", "n", "g", "o", "n", "?">>,
     <<"t", "h", "U+1EDD", "i", " ", "g", "i", "a", "n", " ", "n", "U+1EA5", "u", " ">> \o Repeat("a", 40)}

\* the similarity_scores lists, in hundredths
SimilarityScores == {<<>>, <<-100>>, <<95, 40>>}

\* the answers: none, a short one, a structured one, a long one
Answers ==
    {<<>>,
     <<"-", " ", "N", "g", "o", "n">>,
     <<"1", ".", " ", "n", "g", "u", "y", "ê", "n", " ", "l", "i", "U+1EC7", "u", ":", " ", "b", "á", "n", "h", " ", "p", "h", "U+1EDF", ",", " ", "t", "h", "U+1ECB", "t", " ", "b", "ò", " ", "-", " ", "c", "á", "c", "h", " ", "l", "à", "m", ":", " ", "h", "U+1EA7", "m", " ", "x", "U+01B0", "U+01A1", "n", "g", " ", "3", " ", "g", "i", "U+1EDD">>,
     <<"C", "á", "c", " ", "b", "U+01B0", "U+1EDB", "c", " ">> \o Repeat("a", 500)}

----------------------------------------------------------------------------
(* The chat handlers: EnhancedCookingChatbot.process_chat_request with      *)
(* generate_response, and receive_question of improved_main.  What the      *)
(* vector search found and what the hosted generate_content call does are   *)
(* inputs of the handlers.                                                  *)

\* the strings generate_response returns in place of a generated text
NoKeyFallback == <<"X", "i", "n", " ", "l", "U+1ED7", "i", ",", " ", "t", "ô", "i", " ", "U+0111", "a", "n", "g", " ", "g", "U+1EB7", "p", " ", "s", "U+1EF1", " ", "c", "U+1ED1", " ", "k", "U+1EF9", " ", "t", "h", "u", "U+1EAD", "t", ".", " ", "V", "u", "i", " ", "l", "ò", "n", "g", " ", "t", "h", "U+1EED", " ", "l", "U+1EA1", "i", " ", "s", "a", "u", ".">>
RaisedFallback == <<"X", "i", "n", " ", "l", "U+1ED7", "i", ",", " ", "t", "ô", "i", " ", "k", "h", "ô", "n", "g", " ", "t", "h", "U+1EC3", " ", "t", "r", "U+1EA3", " ", "l", "U+1EDD", "i", " ", "c", "â", "u", " ", "h", "U+1ECF", "i", " ", "n", "à", "y", " ", "l", "ú", "c", " ", "n", "à", "y", ".", " ", "V", "u", "i", " ", "l", "ò", "n", "g", " ", "t", "h", "U+1EED", " ", "l", "U+1EA1", "i", ".">>

\* what model.generate_content(prompt) does: it raises, or gives a text
Generations ==
    {[raises |-> TRUE, text |-> <<>>]}
        \cup {[raises |-> FALSE, text |-> a] : a \in {<<"-", " ", "N", "g", "o", "n">>, <<"C", "á", "c", " ", "b", "U+01B0", "U+1EDB", "c", " ">> \o Repeat("a", 500)}}

\* os.getenv("GOOGLE_API_KEY")
ApiKeys == {None, "", "key"}

\* the exception of the generate_content call let through
generate_response_propagates(query, context_docs, google_api_key, generation) ==
    IF google_api_key \in {None, ""} THEN [raised |-> None, value |-> NoKeyFallback]
    ELSE IF generation.raises THEN [raised |-> "Exception", value |-> <<>>]
    ELSE [raised |-> None, value |-> generation.text]
\* the prompt is built from the first 8 documents with dict.get and defaults;
\* then "if self.google_api_key:" decides between the hosted call and the
\* first fallback, and "except Exception" returns the second one
generate_response(query, context_docs, google_api_key, generation) ==
    IF google_api_key \in {None, ""} THEN [raised |-> None, value |-> NoKeyFallback]
    ELSE IF generation.raises THEN [raised |-> None, value |-> RaisedFallback]
    ELSE [raised |-> None, value |-> generation.text]

\* the metadata add_recipe_data keeps of a recipe: no createdAt
RecipeMetadata(doc) == [doc EXCEPT !.createdAt = Nothing]

\* r['metadata'].get('recipe_id')
recipe_id(metadata) == IF metadata.type = "recipe" THEN metadata._id ELSE None

\* 0.6, the similarity score of a merged recipe that carries none, in hundredths
MergedSimilarity == 60

\* the search result appended for a recipe of recipe_results
MergedResult(recipe) ==
    [metadata |-> Doc(recipe._id, "recipe", recipe.name, <<>>, <<>>, <<>>, Nothing,
                      recipe.ingredients, <<>>),
     similarity_score |-> IF recipe.similarity_score = Nothing THEN MergedSimilarity
                          ELSE recipe.similarity_score[1]]

RECURSIVE MergeRecipes(_, _, _)
\* "for recipe in recipe_results[:3]", from recipe i on: a recipe is appended
\* unless a result so far has its id as recipe_id
MergeRecipes(search_results, recipe_results, i) ==
    IF i > Len(recipe_results) \/ i > 3 THEN search_results
    ELSE IF \E j \in 1..Len(search_results) :
                recipe_id(search_results[j].metadata) = recipe_results[i]._id
         THEN MergeRecipes(search_results, recipe_results, i + 1)
         ELSE MergeRecipes(Append(search_results, MergedResult(recipe_results[i])),
                           recipe_results, i + 1)

\* round(x, 1) of x * 100, for x in units of 1/unit: in tenths
Round1Percent(x, unit) == (2000 * x + unit) \div (2 * unit)

get_confidence_display(confidence) ==
    [score |-> Format2f(confidence.overall_score, 100 * One),
     level |-> confidence.level,
     percentage |-> Round1Percent(confidence.overall_score, 100 * One),
     explanation |-> confidence.explanation,
     recommendations |-> confidence.recommendations,
     factors |-> [k \in DOMAIN confidence.factors |-> Format2f(confidence.factors[k], One)]]

\* the ChatResponse of a request, or the HTTPException that "except
\* Exception" raises; search_results is what self.vector_db.search returned
process_chat_request(message, include_recipes, search_results, recipes_list, google_api_key, generation, current_time) ==
    LET merged ==
            IF include_recipes /\ recipes_list # <<>>
            THEN MergeRecipes(search_results,
                              multi_strategy_search(message, recipes_list, Nothing,
                                                    "SentenceTransformer", <<>>),
                              1)
            ELSE search_results
        similarity_scores == [i \in 1..Len(merged) |-> merged[i].similarity_score] \o <<>>
        docs == [i \in 1..Len(merged) |-> merged[i].metadata] \o <<>>
        generated == generate_response(message, docs, google_api_key, generation)
    IN  IF generated.raised # None
        THEN [raised |-> "HTTPException", status_code |-> 500, value |-> <<>>]
        ELSE [raised |-> None, status_code |-> 200,
              value |-> [response |-> generated.value,
                         confidence |-> get_confidence_display(
                             calculate_confidence(message, docs, similarity_scores,
                                                  generated.value, current_time)),
                         sources |-> SubSeq(merged, 1, Min2(Len(merged), 5)),
                         timestamp |-> current_time]]

\* the metadata of the documents a vector search finds
ChatDocs ==
    {RecipeMetadata(ScenarioRecipe),
     ScenarioFaq,
     Doc("recipe2", "recipe", <<"B", "ú", "n", " ", "B", "ò">>, <<"B", "ú", "n", " ", "B", "ò", " ", " ", "b", "ú", "n", " ", "t", "h", "U+1ECB", "t", " ", "b", "ò">>, <<>>, <<>>,
         Nothing, <<<<"b", "ú", "n">>>>, <<>>)}

\* the metadata lists of the search results
ChatRetrievedDocs == UNION {[1..n -> ChatDocs] : n \in 0..MaxDocs}

\* the scores of n search results, in hundredths: they do not increase, and
\* none is below the threshold of the request
ChatScores(n) ==
    {[i \in 1..n |-> IF i = 1 THEN 95 ELSE 40], [i \in 1..n |-> 31]}

\* self.recipes_cache: empty, the scenario's documents, two recipes of which
\* one has no id
ChatRecipes ==
    {<<>>,
     ScenarioStore,
     <<Recipe("recipe2", <<"B", "ú", "n", " ", "B", "ò">>, <<<<"B", "ò">>>>, "monchinh"),
       Recipe(None, <<"G", "à", " ", "h", "à", "n", "h">>, <<<<"b", "ú", "n">>>>, None)>>}

\* the messages: none, the scenario's, one that asks why, a recipe name
ChatMessages ==
    {<<>>, ScenarioQuery, <<"T", "U+1EA1", "i", " ", "s", "a", "o", " ", "p", "h", "U+1EDF", " ", "n", "g", "o", "n", "?">>, <<"B", "Ú", "N">>}

\* the texts of receive_question
SystemTrouble == <<"X", "i", "n", " ", "l", "U+1ED7", "i", ",", " ", "h", "U+1EC7", " ", "t", "h", "U+1ED1", "n", "g", " ", "U+0111", "a", "n", "g", " ", "g", "U+1EB7", "p", " ", "s", "U+1EF1", " ", "c", "U+1ED1", ".", " ", "V", "u", "i", " ", "l", "ò", "n", "g", " ", "t", "h", "U+1EED", " ", "l", "U+1EA1", "i", " ", "s", "a", "u", "!", " ">> \o <<"U+1F605">>
BasedOnWhatIHave == <<"D", "U+1EF1", "a", " ", "t", "r", "ê", "n", " ", "t", "h", "ô", "n", "g", " ", "t", "i", "n", " ", "t", "ô", "i", " ", "c", "ó", ":", "U+000A", "U+000A">>
CannotAnswer == <<"X", "i", "n", " ", "l", "U+1ED7", "i", ",", " ", "t", "ô", "i", " ", "k", "h", "ô", "n", "g", " ", "t", "h", "U+1EC3", " ", "t", "r", "U+1EA3", " ", "l", "U+1EDD", "i", " ", "c", "â", "u", " ", "h", "U+1ECF", "i", " ", "n", "à", "y", " ", "l", "ú", "c", " ", "n", "à", "y", ".", " ", "V", "u", "i", " ", "l", "ò", "n", "g", " ", "t", "h", "U+1EED", " ", "l", "U+1EA1", "i", " ", "s", "a", "u", "!", " ">> \o <<"U+1F605">>
DefaultSuggestions == <<<<"M", "ó", "n", " ", "n", "h", "a", "n", "h", " ", "3", "0", " ", "p", "h", "ú", "t">>, <<"M", "ó", "n", " ", "c", "h", "o", " ", "g", "i", "a", " ", "U+0111", "ì", "n", "h">>, <<"M", "ó", "n", " ", "V", "i", "U+1EC7", "t", " ", "t", "r", "u", "y", "U+1EC1", "n", " ", "t", "h", "U+1ED1", "n", "g">>>>
TryAgainSuggestions == <<<<"T", "h", "U+1EED", " ", "l", "U+1EA1", "i">>, <<"H", "U+1ECF", "i", " ", "c", "â", "u", " ", "k", "h", "á", "c">>>>
Ellipsis == <<".", ".", ".">>

\* text[:n] + "..." if len(text) > n else text
Shortened(text, n) == IF Len(text) > n THEN SubSeq(text, 1, n) \o Ellipsis ELSE text

\* a row of the frame search_similar_embeddings returns
Row(doc, similarity) ==
    [question |-> doc.question, answer |-> doc.answer, category |-> "general",
     similarity |-> similarity]

\* what search_similar_embeddings returns: at most 5 rows of a similarity of
\* 0.3 or more, the most similar first
RetrievalDocs ==
    {<<>>,
     <<Row(ScenarioFaq, 80)>>,
     <<Row(Doc("faq2", "faq", <<>>, <<>>, <<"T", "U+1EA1", "i", " ", "s", "a", "o", " ", "p", "h", "U+1EDF", " ", "n", "g", "o", "n", "?">>,
               <<"P", "h", "U+1EDF", " ", "n", "g", "o", "n", " ", "n", "h", "U+1EDD", " ", "n", "U+01B0", "U+1EDB", "c", " ", "d", "ù", "n", "g", " ", "n", "U+1EA5", "u", " ", "l", "â", "u", " ">> \o Repeat("a", 100), Nothing, <<>>, <<>>), 90),
       Row(ScenarioFaq, 35)>>}

\* the questions: none, blanks, the scenario's with blanks around it
Questions == {<<>>, <<" ", " ">>, <<" ">> \o ScenarioQuery \o <<" ">>}

\* the answer and the source of "except Exception as gemini_error"
FallbackAnswer(retrieval_docs) ==
    IF retrieval_docs # <<>>
    THEN [answer |-> BasedOnWhatIHave \o retrieval_docs[1].answer, source |-> "fallback"]
    ELSE [answer |-> CannotAnswer, source |-> "error"]

\* the ChatResponse of the /ask handler of improved_main, or its HTTPException
receive_question(data_question, model, df_empty, retrieval_docs, generation) ==
    LET question == strip(data_question)
        rows == IF df_empty THEN <<>> ELSE retrieval_docs
        first3 == SubSeq(rows, 1, Min2(Len(rows), 3))
        suggestions ==
            IF rows # <<>>
            THEN [i \in 1..Len(first3) |-> Shortened(first3[i].question, 50)]
            ELSE DefaultSuggestions
        similar_questions ==
            [i \in 1..Len(first3) |->
                [question |-> first3[i].question,
                 answer |-> Shortened(first3[i].answer, 100),
                 similarity |-> first3[i].similarity,
                 category |-> first3[i].category]]
        max_similarity == IF rows # <<>> THEN rows[1].similarity ELSE 0
        answered ==
            IF generation.raises THEN FallbackAnswer(rows)
            ELSE [answer |-> generation.text,
                  source |-> IF rows # <<>> THEN "rag" ELSE "general"]
    IN  IF question = <<>>
        THEN [raised |-> "HTTPException", status_code |-> 400, value |-> <<>>]
        ELSE IF model = None \/ df_empty
        THEN [raised |-> None, status_code |-> 200,
              value |-> [llm_answers |-> SystemTrouble, suggestions |-> TryAgainSuggestions,
                         source |-> "error", score |-> Nothing,
                         similar_questions |-> <<>>]]
        ELSE [raised |-> None, status_code |-> 200,
              value |-> [llm_answers |-> answered.answer, suggestions |-> suggestions,
                         source |-> answered.source, score |-> Some(max_similarity),
                         similar_questions |-> similar_questions]]

----------------------------------------------------------------------------
(* The actions.  The manager is used by one caller at a time: a call is made *)
(* when no result is pending (ret = Idle), the call leaves its result in     *)
(* ret, and Return is the caller taking it.                                  *)

Idle == [op |-> "idle"]

Return ==
    /\ ret # Idle
    /\ ret' = Idle
    /\ UNCHANGED <<manager_vars, chatbot_vars, input_vars>>

\* EnhancedCookingChatbot.__init__, and nothing saved yet
InitChatbot ==
    /\ index_files = [p \in IndexPaths |-> NoFile]
    /\ metadata_files = [p \in MetadataPaths |-> NoFile]
    /\ ret = Idle
    /\ next_doc = 0
    /\ n_adds = 0
    /\ n_saves = 0
    /\ mongo_sync = None
    /\ last_sync_time = Nothing
    /\ all_documents_cache = <<>>
    /\ recipes_cache = <<>>
    /\ clock = 0

\* a manager of any of the three index types, just constructed
Init ==
    /\ vector_db \in {NewVectorDB(Dim, t) : t \in IndexTypes}
    /\ InitChatbot
    /\ recipes = <<>>
    /\ retrieved_docs = <<>>

\* the chatbot's HybridVectorDB, and a Document Store for the optimizer
InitMerge ==
    /\ vector_db = NewVectorDB(Dim, "IVF")
    /\ InitChatbot
    /\ recipes \in DocumentStores
    /\ retrieved_docs = <<>>

AddDocuments ==
    \E embeddings \in EmbeddingBatches :
        LET metadata == [i \in 1..Len(embeddings) |-> next_doc + i]
            r == add_documents(vector_db, embeddings, metadata)
        IN  /\ ret = Idle
            /\ Shape1(embeddings) # vector_db.dimension \/ n_adds < MaxAdds
            /\ vector_db' = r.db
            /\ ret' = [op |-> "add_documents", shape1 |-> Shape1(embeddings),
                       rows |-> Len(embeddings), raised |-> r.raised]
            /\ next_doc' = IF r.raised = None THEN next_doc + Len(embeddings) ELSE next_doc
            /\ n_adds' = IF r.raised = None THEN n_adds + 1 ELSE n_adds
            /\ UNCHANGED <<index_files, metadata_files, n_saves, chatbot_vars, input_vars>>

Search ==
    \E q \in Queries, k \in 1..MaxK, threshold \in Thresholds, tie \in TieOrders :
    \E probe \in Probes(vector_db.index, normalize_L2(q)) :
        LET r == search(vector_db, q, k, threshold, probe, tie)
        IN  /\ ret = Idle
            /\ ret' = [op |-> "search", query |-> q, k |-> k, threshold |-> threshold,
                       raised |-> r.raised, results |-> r.results]
            /\ UNCHANGED <<manager_vars, chatbot_vars, input_vars>>

GetStats ==
    /\ ret = Idle
    /\ ret' = [op |-> "get_stats", value |-> get_stats(vector_db)]
    /\ UNCHANGED <<manager_vars, chatbot_vars, input_vars>>

Save ==
    \E ip \in IndexPaths, mp \in MetadataPaths :
        /\ <<ip, mp>> \in SaveTargets
        /\ ret = Idle
        /\ n_saves < MaxSaves
        /\ index_files' = [index_files EXCEPT ![ip] = File(vector_db.index)]
        /\ metadata_files' = [metadata_files EXCEPT ![mp] = File(MetadataFile(vector_db))]
        /\ n_saves' = n_saves + 1
        /\ ret' = [op |-> "save", index_path |-> ip, metadata_path |-> mp]
        /\ UNCHANGED <<vector_db, next_doc, n_adds, chatbot_vars, input_vars>>

Load ==
    \E ip \in IndexPaths, mp \in MetadataPaths :
        LET r == load(vector_db, index_files[ip], metadata_files[mp])
        IN  /\ ret = Idle
            /\ vector_db' = r.db
            /\ ret' = [op |-> "load", index_path |-> ip, metadata_path |-> mp,
                       value |-> r.value, raised |-> r.raised]
            /\ UNCHANGED <<index_files, metadata_files, next_doc, n_adds, n_saves, chatbot_vars, input_vars>>

\* startup, steps 2 and 3: a new HybridVectorDB (an IVF manager), load, a
\* rebuild when load returned False (mongo_sync is still None then), the
\* connect, and the first sync_all_data_if_needed: last_sync_time is None,
\* so it syncs, and with documents it rebuilds again, on the same manager.
\* That rebuild reads the collections itself (rebuild_documents; a read that
\* fails gives no documents); what it raises is swallowed and last_sync_time
\* stays None.  The save of a startup rebuild is counted against MaxSaves,
\* the save of the sync's rebuild is not held back by it.
Startup ==
    \E faq_data \in FaqData, connected \in BOOLEAN, documents \in MongoDocuments :
    \E rebuild_documents \in (IF connected /\ Len(documents) > 0
                               THEN MongoDocuments ELSE {documents}) :
    \E ld \in {load(NewVectorDB(Dim, "IVF"),
                    index_files[VectorIndexPath], metadata_files[VectorMetadataPath])} :
    \E r1 \in {IF ld.value THEN NoRebuild(ld.db)
               ELSE rebuild_vector_database(ld.db, faq_data, <<>>, next_doc)} :
    \E r2 \in {IF connected /\ Len(documents) > 0
               THEN rebuild_vector_database(r1.db, faq_data, rebuild_documents,
                                            next_doc + r1.added)
               ELSE NoRebuild(r1.db)} :
        /\ ret = Idle
        /\ mongo_sync = None
        /\ n_adds + (IF r1.added > 0 THEN 1 ELSE 0) + (IF r2.added > 0 THEN 1 ELSE 0) <= MaxAdds
        /\ n_saves + (IF r1.saved THEN 1 ELSE 0) <= MaxSaves
        /\ vector_db' = r2.db
        /\ index_files' = IF r2.saved
                          THEN [index_files EXCEPT ![VectorIndexPath] = File(r2.db.index)]
                          ELSE IF r1.saved
                          THEN [index_files EXCEPT ![VectorIndexPath] = File(r1.db.index)]
                          ELSE index_files
        /\ metadata_files' = IF r2.saved
                             THEN [metadata_files EXCEPT ![VectorMetadataPath] = File(MetadataFile(r2.db))]
                             ELSE IF r1.saved
                             THEN [metadata_files EXCEPT ![VectorMetadataPath] = File(MetadataFile(r1.db))]
                             ELSE metadata_files
        /\ next_doc' = next_doc + r1.added + r2.added
        /\ n_adds' = n_adds + (IF r1.added > 0 THEN 1 ELSE 0) + (IF r2.added > 0 THEN 1 ELSE 0)
        /\ n_saves' = n_saves + (IF r1.saved THEN 1 ELSE 0) + (IF r2.saved THEN 1 ELSE 0)
        /\ mongo_sync' = IF connected THEN "connected" ELSE "unreachable"
        /\ last_sync_time' = IF connected /\ r2.raised = None THEN Some(clock) ELSE last_sync_time
        /\ all_documents_cache' = IF connected /\ Len(documents) > 0
                                  THEN (IF r2.cached THEN rebuild_documents ELSE documents)
                                  ELSE all_documents_cache
        /\ recipes_cache' = IF connected /\ Len(documents) > 0
                            THEN Recipes(IF r2.cached THEN rebuild_documents ELSE documents)
                            ELSE recipes_cache
        /\ ret' = [op |-> "startup", loaded |-> ld.value, rebuilt |-> ~ld.value,
                   raised |-> r1.raised,
                   faq |-> Len(faq_data),
                   synced |-> connected /\ Len(documents) > 0,
                   sync_documents |-> Len(rebuild_documents),
                   sync_raised |-> r2.raised]
        /\ UNCHANGED <<clock, input_vars>>

\* one multi_strategy_search call on the recipes list
MultiStrategySearch ==
    \E query \in MergeQueries, embeddings \in EmbeddingsFor(recipes),
       model \in Models, query_embedding \in QueryEmbeddings :
    \E raised \in {multi_strategy_search_raises(recipes, embeddings, model)} :
        /\ ret = Idle
        /\ ret' = [op |-> "multi_strategy_search", query |-> query,
                   embeddings |-> embeddings, model |-> model,
                   query_embedding |-> query_embedding,
                   raised |-> raised,
                   value |-> IF raised # None THEN <<>>
                             ELSE multi_strategy_search(query, recipes, embeddings,
                                                        model, query_embedding)]
        /\ UNCHANGED <<manager_vars, chatbot_vars, input_vars>>

\* the scorer's caller, and the documents it retrieved
InitConfidence ==
    /\ vector_db = NewVectorDB(Dim, "IVF")
    /\ InitChatbot
    /\ recipes = <<>>
    /\ retrieved_docs \in RetrievedDocs

\* one calculate_confidence call on the retrieved documents
CalculateConfidence ==
    \E query \in ConfidenceQueries, similarity_scores \in SimilarityScores,
       answer \in Answers :
        /\ ret = Idle
        /\ ret' = [op |-> "calculate_confidence", query |-> query,
                   similarity_scores |-> similarity_scores, answer |-> answer,
                   value |-> calculate_confidence(query, retrieved_docs,
                                                  similarity_scores, answer, clock)]
        /\ UNCHANGED <<manager_vars, chatbot_vars, input_vars>>

\* the manager in memory: add_documents, search, get_stats, and load with no file saved
Next == AddDocuments \/ Search \/ GetStats \/ Load \/ Return

Spec == Init /\ [][Next]_vars

\* the manager and its files: add_documents, save, load, startup
NextPersist == AddDocuments \/ Save \/ Load \/ Startup \/ Return

SpecPersist == Init /\ [][NextPersist]_vars

\* the optimizer: multi_strategy_search on every recipes list
NextMerge == MultiStrategySearch \/ Return

SpecMerge == InitMerge /\ [][NextMerge]_vars

\* the scorer: calculate_confidence on every retrieved_docs list
NextConfidence == CalculateConfidence \/ Return

SpecConfidence == InitConfidence /\ [][NextConfidence]_vars

\* POST /sync, that is sync_all_data_if_needed on a started chatbot.  A
\* MongoDBMultiCollectionSync that never connected reads nothing, its reads
\* returning [] on an error.  "except Exception" swallows what the rebuild
\* raises: ret.raised is what it logged.
Sync ==
    /\ ret = Idle
    /\ mongo_sync # None
    /\ \E faq_data \in FaqData,
          documents \in (IF mongo_sync = "connected" THEN MongoDocuments ELSE {<<>>}) :
       \E rebuild_documents \in (IF Len(documents) > 0 THEN MongoDocuments ELSE {documents}) :
       \E due \in {should_sync(last_sync_time, clock)} :
       \E r \in {IF due /\ Len(documents) > 0
                 THEN rebuild_vector_database(vector_db, faq_data, rebuild_documents, next_doc)
                 ELSE NoRebuild(vector_db)} :
           /\ n_adds + (IF r.added > 0 THEN 1 ELSE 0) <= MaxAdds
           /\ vector_db' = r.db
           /\ index_files' = IF r.saved
                             THEN [index_files EXCEPT ![VectorIndexPath] = File(r.db.index)]
                             ELSE index_files
           /\ metadata_files' = IF r.saved
                                THEN [metadata_files EXCEPT ![VectorMetadataPath] = File(MetadataFile(r.db))]
                                ELSE metadata_files
           /\ next_doc' = next_doc + r.added
           /\ n_adds' = n_adds + (IF r.added > 0 THEN 1 ELSE 0)
           /\ n_saves' = n_saves + (IF r.saved THEN 1 ELSE 0)
           /\ last_sync_time' = IF due /\ r.raised = None THEN Some(clock) ELSE last_sync_time
           /\ all_documents_cache' = IF due /\ Len(documents) > 0
                                     THEN (IF r.cached THEN rebuild_documents ELSE documents)
                                     ELSE all_documents_cache
           /\ recipes_cache' = IF due /\ Len(documents) > 0
                               THEN Recipes(IF r.cached THEN rebuild_documents ELSE documents)
                               ELSE recipes_cache
           /\ ret' = [op |-> "sync", should_sync |-> due, documents |-> Len(documents),
                      raised |-> r.raised, propagated |-> None]
    /\ UNCHANGED <<mongo_sync, clock, input_vars>>

\* a day passes
Tick ==
    /\ clock < MaxClock
    /\ clock' = clock + 1
    /\ UNCHANGED <<manager_vars, ret, mongo_sync, last_sync_time, all_documents_cache,
                   recipes_cache, input_vars>>

\* the chatbot over the days: startup, then sync calls
NextSync == Startup \/ Sync \/ Tick \/ Return

SpecSync == Init /\ [][NextSync]_vars

\* a chatbot with a recipes cache, and the metadata of what its next vector
\* search finds
InitChat ==
    /\ vector_db = NewVectorDB(Dim, "IVF")
    /\ InitChatbot
    /\ recipes \in ChatRecipes
    /\ retrieved_docs \in ChatRetrievedDocs

\* POST /ask of enhanced_main; recipes stands for self.recipes_cache
ProcessChatRequest ==
    /\ ret = Idle
    /\ \E message \in ChatMessages, include_recipes \in BOOLEAN,
          similarity_scores \in ChatScores(Len(retrieved_docs)),
          google_api_key \in ApiKeys, generation \in Generations :
       \E search_results \in {[i \in 1..Len(retrieved_docs) |->
                                  [metadata |-> retrieved_docs[i],
                                   similarity_score |-> similarity_scores[i]]] \o <<>>} :
       \E response \in {process_chat_request(message, include_recipes, search_results,
                                             recipes, google_api_key, generation, clock)} :
           ret' = [op |-> "process_chat_request", message |-> message,
                   include_recipes |-> include_recipes,
                   search_results |-> search_results,
                   google_api_key |-> google_api_key, generation |-> generation,
                   raised |-> response.raised, status_code |-> response.status_code,
                   value |-> response.value]
    /\ UNCHANGED <<manager_vars, chatbot_vars, input_vars>>

\* POST /ask of improved_main
ReceiveQuestion ==
    /\ ret = Idle
    /\ \E data_question \in Questions, model \in Models, df_empty \in BOOLEAN,
          retrieval_docs \in RetrievalDocs, generation \in Generations :
       \E response \in {receive_question(data_question, model, df_empty,
                                         retrieval_docs, generation)} :
           ret' = [op |-> "receive_question", question |-> data_question,
                   model |-> model, df_empty |-> df_empty,
                   retrieval_docs |-> retrieval_docs, generation |-> generation,
                   raised |-> response.raised, status_code |-> response.status_code,
                   value |-> response.value]
    /\ UNCHANGED <<manager_vars, chatbot_vars, input_vars>>

\* the chat handlers, each on its own inputs
NextChat == ProcessChatRequest \/ ReceiveQuestion \/ Return

SpecChat == InitChat /\ [][NextChat]_vars

----------------------------------------------------------------------------
(* Claims about VectorDBManager *)

\* the query of the pending search result, as search normalized it
RetQuery == normalize_L2(ret.query)

\* the searches that returned a list
SearchReturned == ret.op = "search" /\ ret.raised = None

\* C1: after any sequence of add_documents, save and load calls the metadata
\* table is as long as the index holds vectors (len(metadata) = index.ntotal).
C1_MetadataMatchesIndex ==
    Len(vector_db.metadata) = ntotal(vector_db.index)

\* C2: ordinal positions are stable: every result of search carries the
\* metadata element that was inserted with the stored vector it reports, and
\* every inserted document is still in the index at its original ordinal.
C2_OrdinalsStable ==
    /\ SearchReturned =>
          \A i \in 1..Len(ret.results) :
              ret.results[i].metadata = vector_db.index.xb[ret.results[i].index + 1].doc
    /\ \A i \in 1..Len(vector_db.metadata) :
          /\ i <= ntotal(vector_db.index)
          /\ vector_db.index.xb[i].doc = vector_db.metadata[i]

\* an IVF manager whose index was replaced by a Flat one for lack of training data
FellBack(db) == db.index_type = "IVF" /\ ~db.is_trained /\ db.index.kind = "Flat"

\* the rows of the index whose cosine with q reaches the threshold
CosineAbove(index, q, threshold) ==
    {i \in 1..ntotal(index) : Dot(q, index.xb[i].vec) >= threshold}

\* results are the exact nearest neighbours by cosine: as many as k and the
\* threshold allow, none worse than a row left out, best first
ExactNeighbours(index, q, k, threshold, results) ==
    LET got == {results[i].index + 1 : i \in 1..Len(results)}
        above == CosineAbove(index, q, threshold)
    IN  /\ Len(results) = IF Cardinality(above) < k THEN Cardinality(above) ELSE k
        /\ got \subseteq above
        /\ \A i \in 1..Len(results) :
              results[i].similarity_score = Dot(q, index.xb[results[i].index + 1].vec)
        /\ \A i \in above \ got, j \in got :
              Dot(q, index.xb[i].vec) <= Dot(q, index.xb[j].vec)
        /\ \A i \in 1..Len(results), j \in 1..Len(results) :
              i < j => results[i].similarity_score >= results[j].similarity_score

\* what get_stats tells of the strategy and the trained state
StrategyFields(stats) == <<stats.index_type, stats.is_trained>>

\* C3: an untrained IVF index given fewer than 100 vectors stores them with
\* exact (Flat) behaviour, a following search returns the exact nearest
\* neighbours, and the strategy / trained-state fields of get_stats() tell the
\* index that fell back from an IVF index that did not (a new one).
C3_FallbackObservable ==
    /\ (ret.op = "add_documents" /\ ret.shape1 = vector_db.dimension
            /\ ret.rows < TrainThreshold
            /\ vector_db.index_type = "IVF" /\ ~vector_db.is_trained)
          => ret.raised = None /\ vector_db.index.kind = "Flat" /\ vector_db.index.metric = "IP"
    /\ (SearchReturned /\ FellBack(vector_db) /\ Len(ret.query) = vector_db.dimension)
          => ExactNeighbours(vector_db.index, RetQuery, ret.k, ret.threshold, ret.results)
    /\ (ret.op = "get_stats" /\ FellBack(vector_db))
          => StrategyFields(ret.value) # StrategyFields(get_stats(NewVectorDB(Dim, "IVF")))

\* C4: search returns at most k results and every similarity_score it
\* returns is at least the threshold, also when k exceeds the number of
\* stored vectors.
C4_AtMostKAboveThreshold ==
    ret.op = "search" =>
        /\ Len(ret.results) <= ret.k
        /\ \A i \in 1..Len(ret.results) : ret.results[i].similarity_score >= ret.threshold

\* C4 witness: a search with k above the number of stored vectors that
\* returned some of them and dropped another for its score
C4_Witness ==
    /\ SearchReturned
    /\ ret.k > ntotal(vector_db.index)
    /\ Len(ret.results) >= 1
    /\ Len(ret.results) < ntotal(vector_db.index)

\* the index is the one _create_index makes for the manager's index_type, trained if it is IVF
AsCreated(db) == db.index.kind = db.index_type /\ db.index.is_trained

\* C5: for each strategy of _create_index (Flat, trained IVF, HNSW) the
\* similarity_score of a result is the inner product of the normalized query
\* and the normalized stored vector (the cosine: larger is closer).
C5_ScoreIsCosine ==
    (SearchReturned /\ AsCreated(vector_db)) =>
        \A i \in 1..Len(ret.results) :
            ret.results[i].similarity_score
                = Dot(RetQuery, vector_db.index.xb[ret.results[i].index + 1].vec)

\* C6: on an index that holds no vector, search returns the empty list for
\* every query, k and threshold, and raises nothing.
C6_EmptyIndexSearch ==
    (ret.op = "search" /\ ntotal(vector_db.index) = 0) =>
        ret.raised = None /\ ret.results = <<>>

\* C6 witness: a search on an empty, untrained IVF index with a query of another width
C6_Witness ==
    /\ ret.op = "search"
    /\ ntotal(vector_db.index) = 0
    /\ vector_db.index.kind = "IVF"
    /\ Len(ret.query) # vector_db.dimension

\* C7: add_documents with rows of another width than the index dimension
\* raises ValueError and leaves the manager (index, metadata, trained flag)
\* as it was.
C7_MismatchRejected ==
    [][(ret'.op = "add_documents" /\ ret'.shape1 # vector_db.dimension)
          => (ret'.raised = "ValueError" /\ vector_db' = vector_db)]_vars

\* C7 witness: a rejected batch on a manager that already holds vectors
C7_Witness ==
    /\ ret.op = "add_documents"
    /\ ret.raised = "ValueError"
    /\ ntotal(vector_db.index) > 0

\* C8: load returns False and raises nothing whenever the index file or the
\* metadata file is absent, and leaves the manager as it was; startup then
\* rebuilds: it runs rebuild_vector_database, which leaves both files saved.
C8_LoadMissing ==
    [][/\ (ret'.op = "load"
              /\ (~Exists(index_files[ret'.index_path])
                    \/ ~Exists(metadata_files[ret'.metadata_path])))
          => (ret'.value = FALSE /\ ret'.raised = None /\ vector_db' = vector_db)
       /\ (ret'.op = "startup"
              /\ (~Exists(index_files[VectorIndexPath])
                    \/ ~Exists(metadata_files[VectorMetadataPath])))
          => (/\ ret'.rebuilt /\ ~ret'.loaded
              /\ Exists(index_files'[VectorIndexPath])
              /\ Exists(metadata_files'[VectorMetadataPath]))
      ]_vars

\* C8 witness: load found the index file but not the metadata file, on a manager that holds vectors
C8_Witness ==
    /\ ret.op = "load"
    /\ ret.value = FALSE
    /\ Exists(index_files[ret.index_path])
    /\ ~Exists(metadata_files[ret.metadata_path])
    /\ ntotal(vector_db.index) > 0

\* C9: when the index file and the metadata file that load reads differ in
\* their entry counts, load does not report success and the manager does not
\* hold (so cannot serve from) that pair.
C9_CorruptPairRefused ==
    (/\ ret.op = "load"
     /\ Exists(index_files[ret.index_path])
     /\ Exists(metadata_files[ret.metadata_path])
     /\ ntotal(Contents(index_files[ret.index_path]))
           # Len(Contents(metadata_files[ret.metadata_path]).metadata))
        => (/\ ret.value = FALSE
            /\ ~(/\ vector_db.index = Contents(index_files[ret.index_path])
                 /\ vector_db.metadata = Contents(metadata_files[ret.metadata_path]).metadata))

\* a manager as __init__ leaves it, of another dimension and strategy than
\* the managers that save
FreshManager == NewVectorDB(Dim + 1, "Flat")

\* the two managers give the same answer to every search
SameSearchResults(db1, db2) ==
    \A q \in Queries, k \in 1..MaxK, threshold \in Thresholds, tie \in TieOrders :
        /\ Probes(db1.index, normalize_L2(q)) = Probes(db2.index, normalize_L2(q))
        /\ \A probe \in Probes(db1.index, normalize_L2(q)) :
              search(db1, q, k, threshold, probe, tie) = search(db2, q, k, threshold, probe, tie)

\* C28: save followed by load is a round trip for every index state, an IVF
\* manager that fell back to a flat index included: a fresh manager that
\* loads the pair a save has just written has the metadata table, the
\* dimension, the strategy, the trained flag and the vector count of the
\* manager that saved, and answers every search (query, k, threshold) as it
\* does; and every successful load installs what the two files hold, whatever
\* the loading manager held before.
C28_SaveLoadRoundTrip ==
    [][/\ ret'.op = "save" =>
             LET loaded == load(FreshManager, index_files'[ret'.index_path],
                                metadata_files'[ret'.metadata_path])
             IN  /\ loaded.value = TRUE /\ loaded.raised = None
                 /\ loaded.db.metadata = vector_db.metadata
                 /\ loaded.db.dimension = vector_db.dimension
                 /\ loaded.db.index_type = vector_db.index_type
                 /\ loaded.db.is_trained = vector_db.is_trained
                 /\ ntotal(loaded.db.index) = ntotal(vector_db.index)
                 /\ SameSearchResults(loaded.db, vector_db)
       /\ (ret'.op = "load" /\ ret'.value = TRUE) =>
             vector_db' = load(FreshManager, index_files[ret'.index_path],
                               metadata_files[ret'.metadata_path]).db
      ]_vars

\* C28 witness: after a save, a load has installed the pair of an IVF manager
\* that had fallen back to a flat index and holds vectors
C28_Witness ==
    /\ ret.op = "load"
    /\ ret.value = TRUE
    /\ n_saves > 0
    /\ vector_db.index_type = "IVF"
    /\ vector_db.index.kind = "Flat"
    /\ ntotal(vector_db.index) > 0
    /\ vector_db.index = Contents(index_files[ret.index_path])
    /\ MetadataFile(vector_db) = Contents(metadata_files[ret.metadata_path])

----------------------------------------------------------------------------
(* Claims about RecipeSearchOptimizer *)

\* the recipe an entry of a result list was made from
Untagged(e) == Recipe(e._id, e.name, e.ingredients, e.category)

\* the strategies in their priority order, by the match_type they tag with
Priority == <<"exact_name", "ingredient", "category", "semantic">>

\* what the strategy of rank p returns for the arguments of the pending call
StrategyResults(p) ==
    CASE p = 1 -> _exact_match_search(ret.query, recipes)
      [] p = 2 -> _ingredient_based_search(ret.query, recipes)
      [] p = 3 -> _category_filter_search(ret.query, recipes)
      [] p = 4 -> IF ret.embeddings # Nothing /\ ret.model # None
                  THEN _semantic_search(ret.query_embedding, recipes,
                                        ret.embeddings[1], SemanticThreshold)
                  ELSE <<>>

\* the strategy of rank p matched the document
MatchedBy(p, doc) ==
    \E j \in 1..Len(StrategyResults(p)) : Untagged(StrategyResults(p)[j]) = doc

\* C10: in the list multi_strategy_search returns, each document's match_type
\* is that of the highest-priority strategy (exact, then ingredient, then
\* category, then semantic) that matched it; a document matched by the exact
\* and by the semantic strategy is reported as an exact match.
C10_HighestPriorityMatchType ==
    ret.op = "multi_strategy_search" =>
        \A i \in 1..Len(ret.value) :
            LET doc == Untagged(ret.value[i])
            IN  ret.value[i].match_type
                    = Priority[Least({p \in 1..Len(Priority) : MatchedBy(p, doc)})]

\* C10 witness: a returned list with an exact entry whose document the
\* semantic strategy matched too, and an entry of a lower strategy
C10_Witness ==
    /\ ret.op = "multi_strategy_search"
    /\ \E i \in 1..Len(ret.value) :
          /\ ret.value[i].match_type = "exact_name"
          /\ MatchedBy(4, Untagged(ret.value[i]))
    /\ \E i \in 1..Len(ret.value) : ret.value[i].match_type # "exact_name"

\* the pending result is the list of a multi_strategy_search call
MergeReturned == ret.op = "multi_strategy_search" /\ ret.raised = None

\* the positions of the recipes list whose document some strategy matched
MatchedPositions ==
    {p \in 1..Len(recipes) : \E s \in 1..Len(Priority) : MatchedBy(s, recipes[p])}

\* no two documents of the recipes list have the same id
DistinctIds ==
    \A p, q \in 1..Len(recipes) : p # q => recipes[p]._id # recipes[q]._id

\* C11: the list multi_strategy_search returns has at most 10 entries, no two
\* of them with the same document id; when every document has an id of its
\* own and fewer than 10 documents match, every document that some strategy
\* matched is in the list exactly once.
C11_BoundedDeduplicated ==
    ret.op = "multi_strategy_search" =>
        /\ Len(ret.value) <= 10
        /\ \A i, j \in 1..Len(ret.value) :
              i # j => ret.value[i]._id # ret.value[j]._id
        /\ (DistinctIds /\ Cardinality(MatchedPositions) < 10) =>
              \A p \in MatchedPositions :
                  Cardinality({i \in 1..Len(ret.value) :
                                  Untagged(ret.value[i]) = recipes[p]}) = 1

\* C11 witness: more than 10 documents matched and the list was cut to 10
C11_Witness ==
    /\ MergeReturned
    /\ Cardinality(MatchedPositions) > 10
    /\ Len(ret.value) = 10

\* the rank of the strategy an entry is tagged by
TagRank(e) == CHOOSE p \in 1..Len(Priority) : Priority[p] = e.match_type

\* where a document first stands in the recipes list
FirstPosition(doc) == Least({p \in 1..Len(recipes) : recipes[p] = doc})

\* C12: the merged list is a stable union in priority order: exact entries
\* come before ingredient entries, these before category entries, these
\* before semantic entries; exact, ingredient and category entries are in
\* recipes-list order among themselves, semantic entries in descending
\* similarity; only semantic entries carry a score, and it is the similarity
\* the semantic strategy computed for the document.
C12_PriorityOrderedUnion ==
    ret.op = "multi_strategy_search" =>
        /\ \A i, j \in 1..Len(ret.value) :
              i < j =>
                  /\ TagRank(ret.value[i]) <= TagRank(ret.value[j])
                  /\ (TagRank(ret.value[i]) = TagRank(ret.value[j])
                          /\ ret.value[i].match_type # "semantic")
                        => FirstPosition(Untagged(ret.value[i]))
                               < FirstPosition(Untagged(ret.value[j]))
                  /\ (ret.value[i].match_type = "semantic"
                          /\ ret.value[j].match_type = "semantic")
                        => ret.value[i].similarity_score[1]
                               >= ret.value[j].similarity_score[1]
        /\ \A i \in 1..Len(ret.value) :
              IF ret.value[i].match_type = "semantic"
              THEN \E p \in 1..Len(recipes) :
                      /\ recipes[p] = Untagged(ret.value[i])
                      /\ ret.value[i].similarity_score
                            = Some(Dot(ret.embeddings[1][p], ret.query_embedding))
              ELSE ret.value[i].similarity_score = Nothing

\* C12 witness: two semantic entries that the sort put in the other order
\* than the recipes list has them
C12_Witness ==
    /\ MergeReturned
    /\ \E i, j \in 1..Len(ret.value) :
          /\ i < j
          /\ ret.value[i].match_type = "semantic"
          /\ ret.value[j].match_type = "semantic"
          /\ ret.value[i].similarity_score[1] > ret.value[j].similarity_score[1]
          /\ FirstPosition(Untagged(ret.value[i])) > FirstPosition(Untagged(ret.value[j]))

\* the semantic strategy has no input: no embeddings, no model, or another
\* number of embeddings than of documents
SemanticUnavailable ==
    \/ ret.embeddings = Nothing
    \/ ret.model = None
    \/ Len(ret.embeddings[1]) # Len(recipes)

\* the first TopResults entries of a list
Top(results) ==
    SubSeq(results, 1, IF Len(results) < TopResults THEN Len(results) ELSE TopResults)

\* C15: when the semantic strategy has no input (embeddings is None, model is
\* None, or the embeddings count is not the document count)
\* multi_strategy_search raises nothing and returns the merge of the exact,
\* ingredient and category results.
C15_SemanticSkipped ==
    (ret.op = "multi_strategy_search" /\ SemanticUnavailable) =>
        /\ ret.raised = None
        /\ ret.value = Top(UniqueResults(
                             _exact_match_search(ret.query, recipes)
                                 \o _ingredient_based_search(ret.query, recipes)
                                 \o _category_filter_search(ret.query, recipes),
                             1, {}))

\* C15 witness: embeddings for every document and no model, where the
\* semantic strategy would have added a document no other strategy matched
C15_Witness ==
    /\ MergeReturned
    /\ ret.model = None
    /\ ret.embeddings # Nothing
    /\ Len(ret.embeddings[1]) = Len(recipes)
    /\ \E p \in 1..Len(recipes) :
          /\ Dot(ret.embeddings[1][p], ret.query_embedding) >= SemanticThreshold
          /\ \A s \in 1..3 : ~MatchedBy(s, recipes[p])
    /\ Len(ret.value) > 0

\* the position of the document with this id in a result list, 0 if it has none
PositionOf(results, id) ==
    IF \E i \in 1..Len(results) : results[i]._id = id
    THEN CHOOSE i \in 1..Len(results) : results[i]._id = id
    ELSE 0

\* C16: for the query 'cach lam pho bo' against the recipe named 'Pho Bo'
\* and an unrelated FAQ, the exact-match strategy returns a list holding the
\* recipe, the context_relevance factor of the two documents is above 0, and
\* the merged list holds the recipe, before the FAQ if it holds the FAQ.
C16_ScenarioRecipeFirst ==
    (MergeReturned /\ recipes = ScenarioStore /\ ret.query = ScenarioQuery) =>
        /\ PositionOf(_exact_match_search(ret.query, recipes), ScenarioRecipe._id) > 0
        /\ _calculate_context_relevance(ret.query, <<ScenarioRecipe, ScenarioFaq>>) > 0
        /\ PositionOf(ret.value, ScenarioRecipe._id) > 0
        /\ PositionOf(ret.value, ScenarioFaq._id) > 0 =>
              PositionOf(ret.value, ScenarioRecipe._id) < PositionOf(ret.value, ScenarioFaq._id)

\* the phrases of the category strategy that the lower-cased query of the
\* pending call holds, by their place in the mapping
PhrasesInQuery ==
    {i \in 1..Len(category_keywords) : In(category_keywords[i].keyword, lower(ret.query))}

\* the place in recipes of the j-th document of the category code
NthOfCategory(code, j) ==
    CHOOSE i \in 1..Len(recipes) :
        /\ recipes[i].category = code
        /\ Cardinality({k \in 1..(i - 1) : recipes[k].category = code}) = j - 1

\* C27: the category strategy is a hard filter.  When the lower-cased query
\* holds none of the fixed phrases it returns no document; otherwise it
\* returns exactly the documents whose category code is the code of the
\* first phrase, in the order of the mapping, that the query holds, in the
\* order of the documents in the store.
C27_CategoryHardFilter ==
    MergeReturned =>
        LET results == StrategyResults(3)
        IN  IF PhrasesInQuery = {} THEN results = <<>>
            ELSE LET code == category_keywords[Least(PhrasesInQuery)].category
                 IN  /\ Len(results)
                           = Cardinality({i \in 1..Len(recipes) : recipes[i].category = code})
                     /\ \A j \in 1..Len(results) :
                           /\ results[j].match_type = "category"
                           /\ Untagged(results[j]) = recipes[NthOfCategory(code, j)]

\* C27 witness: a query that holds two phrases, the one that comes later in
\* the mapping first, on a store with a document of each of the two codes;
\* the returned list has an entry of the category strategy
C27_Witness ==
    /\ MergeReturned
    /\ Cardinality(PhrasesInQuery) = 2
    /\ \E i, k \in 1..Len(recipes) :
          /\ recipes[i].category = "monchinh"
          /\ recipes[k].category = "monphu"
    /\ \E j \in 1..Len(ret.value) : ret.value[j].match_type = "category"

----------------------------------------------------------------------------
(* Claims about EnhancedCookingChatbot *)

\* startup has returned and the last rebuild_vector_database it ran (the
\* sync's, or else the one after the failed load) ran to its end
LastRebuildCompleted ==
    /\ ret.op = "startup"
    /\ ret.raised = None
    /\ IF ret.synced THEN ret.sync_raised = None ELSE ret.rebuilt

\* the source documents of that rebuild: the FAQ items and what it read from
\* the collections
SourcesOfLastRebuild == IF ret.synced THEN ret.faq + ret.sync_documents ELSE ret.faq

\* C23: after a completed rebuild_vector_database, at startup after a failed
\* load or on a later sync, the index and the metadata table that describes
\* its entries hold one entry per source document of that rebuild and none of
\* an earlier build.
C23_RebuildReplacesIndex ==
    LastRebuildCompleted =>
        /\ ntotal(vector_db.index) = SourcesOfLastRebuild
        /\ Len(vector_db.metadata) = SourcesOfLastRebuild

----------------------------------------------------------------------------
(* Claims about AdvancedConfidenceScorer *)

ConfidenceReturned == ret.op = "calculate_confidence"

\* C17: whatever the query, the retrieved documents (their kind, their
\* createdAt before or after the clock), the similarity scores and the
\* answer, each of the seven factors of a returned score is in [0, 1] and so
\* is overall_score.
C17_FactorsInUnitInterval ==
    ConfidenceReturned =>
        /\ \A i \in 1..Len(Factors) :
              /\ ret.value.factors[Factors[i]] >= 0
              /\ ret.value.factors[Factors[i]] <= One
        /\ ret.value.overall_score >= 0
        /\ ret.value.overall_score <= 100 * One

\* C18: overall_score is the sum of weight x factor over the seven factors
\* and no other, with the weights 0.25, 0.20, 0.15, 0.10, 0.10, 0.10, 0.10
\* (here in hundredths), which add up to 1.
C18_WeightedSumOfSeven ==
    ConfidenceReturned =>
        LET factors == ret.value.factors
        IN  /\ DOMAIN factors =
                  {"semantic_similarity", "keyword_match", "context_relevance",
                   "data_freshness", "source_reliability", "query_clarity",
                   "answer_completeness"}
            /\ ret.value.overall_score =
                  25 * factors.semantic_similarity + 20 * factors.keyword_match
                      + 15 * factors.context_relevance + 10 * factors.data_freshness
                      + 10 * factors.source_reliability + 10 * factors.query_clarity
                      + 10 * factors.answer_completeness
            /\ DOMAIN weights = DOMAIN factors
            /\ SumSeq([i \in 1..Len(Factors) |-> weights[Factors[i]]]) = 100

\* a score with seven factors above 0, not all the same
C18_Witness ==
    /\ ConfidenceReturned
    /\ \A i \in 1..Len(Factors) : ret.value.factors[Factors[i]] > 0
    /\ ret.value.factors.semantic_similarity # ret.value.factors.keyword_match
    /\ ret.value.factors.data_freshness # ret.value.factors.query_clarity

\* the levels from the lowest to the highest
Levels == <<"very_low", "low", "medium", "high", "very_high">>
LevelRank(level) == CHOOSE i \in 1..Len(Levels) : Levels[i] = level

\* scores at, just below and just above each rung, and the two ends
LadderScores ==
    {0, 100 * One}
        \cup UNION {{r * One - 1, r * One, r * One + 1} : r \in {30, 50, 70, 90}}

\* C19: the level of a returned score is VeryHigh iff overall >= 0.9, High
\* iff 0.7 <= overall < 0.9, Medium iff 0.5 <= overall < 0.7, Low iff
\* 0.3 <= overall < 0.5, VeryLow iff overall < 0.3; every score has a level,
\* and a score that is not lower never has a lower level.
C19_LevelIsLadderImage ==
    ConfidenceReturned =>
        LET overall == ret.value.overall_score
            level == ret.value.level
        IN  /\ \E i \in 1..Len(Levels) : Levels[i] = level
            /\ level = "very_high" <=> overall >= 90 * One
            /\ level = "high" <=> (70 * One <= overall /\ overall < 90 * One)
            /\ level = "medium" <=> (50 * One <= overall /\ overall < 70 * One)
            /\ level = "low" <=> (30 * One <= overall /\ overall < 50 * One)
            /\ level = "very_low" <=> overall < 30 * One
            /\ \A score \in LadderScores :
                  /\ \E i \in 1..Len(Levels) : Levels[i] = _get_confidence_level(score)
                  /\ score >= overall =>
                        LevelRank(_get_confidence_level(score)) >= LevelRank(level)
                  /\ score <= overall =>
                        LevelRank(_get_confidence_level(score)) <= LevelRank(level)

\* a score on a rung between the lowest and the highest
C19_Witness ==
    /\ ConfidenceReturned
    /\ ret.value.level = "low"
    /\ ret.value.overall_score > 30 * One

\* C20: query_clarity is exactly 0.2 for the empty query and for every query
\* of fewer than 5 characters, whatever the query holds and whatever the
\* documents, the scores and the answer are.
C20_ShortQueryClarity ==
    (ConfidenceReturned /\ Len(ret.query) < 5) =>
        ret.value.factors.query_clarity = Tenths(2)

\* C21: answer_completeness is exactly 0.1 for the empty answer and for every
\* answer of fewer than 10 characters, whatever the query is and whatever
\* markers the answer holds.
C21_ShortAnswerCompleteness ==
    (ConfidenceReturned /\ Len(ret.answer) < 10) =>
        ret.value.factors.answer_completeness = Tenths(1)

\* a short answer that holds a marker, to a query that asks how to make a dish
C21_Witness ==
    /\ ConfidenceReturned
    /\ ret.answer # <<>>
    /\ Len(ret.answer) < 10
    /\ In(<<"-">>, ret.answer)
    /\ ret.query = ScenarioQuery
    /\ ret.value.factors.answer_completeness = Tenths(1)

\* a call with no documents, no scores, the empty query and the empty answer
EmptyInput ==
    /\ ConfidenceReturned
    /\ retrieved_docs = <<>>
    /\ ret.query = <<>>
    /\ ret.similarity_scores = <<>>
    /\ ret.answer = <<>>

\* C22: on empty input calculate_confidence raises nothing and returns a
\* score whose factors are semantic_similarity 0, keyword_match 0,
\* context_relevance 0, data_freshness 0.5, source_reliability 0.5,
\* query_clarity 0.2, answer_completeness 0.1, whose overall is 0.13 and
\* whose level is VeryLow.
C22_EmptyInputDefaults ==
    EmptyInput =>
        /\ ret.value.factors =
              [semantic_similarity |-> 0, keyword_match |-> 0, context_relevance |-> 0,
               data_freshness |-> Tenths(5), source_reliability |-> Tenths(5),
               query_clarity |-> Tenths(2), answer_completeness |-> Tenths(1)]
        /\ ret.value.overall_score = 13 * One
        /\ ret.value.level = "very_low"

\* the call on empty input has returned a score
C22_Witness == EmptyInput /\ DOMAIN ret.value.factors # {}

\* the greatest and the least value among the factors
MaxFactorValue(factors) ==
    CHOOSE v \in {factors[Factors[i]] : i \in 1..Len(Factors)} :
        \A i \in 1..Len(Factors) : factors[Factors[i]] <= v
MinFactorValue(factors) ==
    CHOOSE v \in {factors[Factors[i]] : i \in 1..Len(Factors)} :
        \A i \in 1..Len(Factors) : factors[Factors[i]] >= v

\* the first factor, in the order the factors are computed in, of value v
FirstFactorOfValue(factors, v) ==
    Factors[CHOOSE i \in 1..Len(Factors) :
                /\ factors[Factors[i]] = v
                /\ \A j \in 1..(i - 1) : factors[Factors[j]] # v]

\* C25: the explanation of a returned score names as strongest the first
\* factor, in the order the factors are computed in, that attains the greatest
\* value, names as weakest the first factor in that order that attains the
\* least value, and reports the overall score.
C25_ExplanationNamesFirstExtremes ==
    ConfidenceReturned =>
        LET score == ret.value
        IN  /\ score.explanation.strongest.name
                  = FirstFactorOfValue(score.factors, MaxFactorValue(score.factors))
            /\ score.explanation.weakest.name
                  = FirstFactorOfValue(score.factors, MinFactorValue(score.factors))
            /\ score.explanation.overall_score = Format2f(score.overall_score, 100 * One)

\* the messages of the low levels, each with the factor that governs it
LowLevelAdvice ==
    <<[factor |-> "semantic_similarity", message |-> MoreSpecificKeywords],
      [factor |-> "keyword_match", message |-> MorePreciseTerms],
      [factor |-> "query_clarity", message |-> ClarifyQuestion]>>

\* C26: the recommendations of a returned score follow its level: at Low or
\* VeryLow they are, in order, the messages among (more specific keywords,
\* more precise cooking terms, clarify the question) whose governing factor
\* (semantic_similarity, keyword_match, query_clarity) is below 0.5, and
\* nothing else; at Medium the one generic message; at High or VeryHigh the
\* one message that affirms the confidence.
C26_RecommendationsFollowLevel ==
    ConfidenceReturned =>
        LET score == ret.value
            governed == SelectSeq(LowLevelAdvice,
                                  LAMBDA a : score.factors[a.factor] < Tenths(5))
        IN  /\ score.level \in {"low", "very_low"} =>
                  score.recommendations = [i \in 1..Len(governed) |-> governed[i].message]
            /\ score.level = "medium" => score.recommendations = <<FairlyGood>>
            /\ score.level \in {"high", "very_high"} =>
                  score.recommendations = <<HighConfidence>>

\* C26 witness: a Low score with the first factor at 0.5 or more and the two
\* other governing factors below, so that two of the three messages are given
C26_Witness ==
    /\ ConfidenceReturned
    /\ ret.value.level = "low"
    /\ ret.value.factors.semantic_similarity >= Tenths(5)
    /\ ret.value.recommendations = <<MorePreciseTerms, ClarifyQuestion>>

----------------------------------------------------------------------------
(* Claims about the chat handlers *)

\* a chat request of enhanced_main has been handled
ChatReturned == ret.op = "process_chat_request"

\* the answer generator failed: no API key is configured, or the hosted call raised
GenerationFailed == ret.google_api_key \in {None, ""} \/ ret.generation.raises

\* C24: a failure of the answer generator never propagates.  In enhanced_main,
\* when no API key is configured or the hosted call raises, the chat request
\* completes with a response that carries the fixed fallback string of that
\* case; in improved_main, when the hosted call raises, the request completes
\* with the best retrieved answer or, when nothing was retrieved, the apology.
C24_GeneratorFailureContained ==
    /\ (ChatReturned /\ GenerationFailed) =>
          /\ ret.raised = None
          /\ ret.value.response
                = (IF ret.google_api_key \in {None, ""} THEN NoKeyFallback
                   ELSE RaisedFallback)
    /\ (/\ ret.op = "receive_question"
        /\ strip(ret.question) # <<>>
        /\ ret.model # None /\ ~ret.df_empty
        /\ ret.generation.raises) =>
          /\ ret.raised = None
          /\ IF ret.retrieval_docs # <<>>
             THEN /\ endswith(ret.value.llm_answers, ret.retrieval_docs[1].answer)
                  /\ \A i \in 1..Len(ret.retrieval_docs) :
                        ret.retrieval_docs[1].similarity >= ret.retrieval_docs[i].similarity
             ELSE ret.value.llm_answers = CannotAnswer

\* C24 witness: the hosted call raised in a chat request of enhanced_main that
\* had found documents, and the response carries the fallback string
C24_Witness ==
    /\ ChatReturned
    /\ ret.google_api_key = "key"
    /\ ret.generation.raises
    /\ ret.search_results # <<>>
    /\ ret.raised = None
    /\ ret.value.response = RaisedFallback

\* C29: when answer generation fails during process_chat_request, the
\* confidence level reported with the fallback response is Low or VeryLow,
\* whatever the retrieved documents and their similarity scores are.
C29_FallbackConfidenceLow ==
    (ChatReturned /\ GenerationFailed /\ ret.raised = None) =>
        ret.value.confidence.level \in {"low", "very_low"}

----------------------------------------------------------------------------
(* Claims about sync_all_data_if_needed *)

\* C30: sync_all_data_if_needed syncs only when no sync time is recorded or
\* more than 24 hours have passed since last_sync_time.  After an attempt that
\* finishes without an exception last_sync_time is the current time, so that
\* a call within the next 24 hours changes nothing; when the attempt raises,
\* the exception is swallowed and last_sync_time keeps its old value, so that
\* the next call tries again.
C30_DailySync ==
    [][(ret = Idle /\ ret'.op = "sync") =>
          LET due == last_sync_time = Nothing \/ clock - last_sync_time[1] > 1
          IN  /\ ret'.should_sync = due
              /\ ret'.propagated = None
              /\ ~due => /\ ret'.raised = None
                         /\ UNCHANGED <<manager_vars, chatbot_vars>>
              /\ (due /\ ret'.raised = None) =>
                    /\ last_sync_time' = Some(clock)
                    /\ ~should_sync(last_sync_time', clock)
                    /\ ~should_sync(last_sync_time', clock + 1)
              /\ (due /\ ret'.raised # None) =>
                    /\ last_sync_time' = last_sync_time
                    /\ should_sync(last_sync_time', clock)
      ]_vars

\* C30 witness: more than 24 hours after a sync, an attempt raised and left
\* the recorded sync time as it was
C30_Witness ==
    /\ ret.op = "sync"
    /\ ret.should_sync
    /\ ret.raised # None
    /\ last_sync_time # Nothing
    /\ clock - last_sync_time[1] > 1

====
